---- MODULE Spec2Model ----
(***************************************************************************)
(* Address-resolution pipeline of innpulsa-analisis-exploracion:           *)
(*   - RateLimiter (src/innpulsa/rate_limiter.py and the copy kept in      *)
(*     src/innpulsa/geolocation/llm.py)                                    *)
(*   - create_address_batches (geolocation/llm.py)                         *)
(*   - AddressProcessor.process_addresses, normalise_addresses_using_llm,  *)
(*     save_batch_result, _compile_results                                 *)
(*   - GoogleGeocoder.geocode, _geocode_with_retry, geocode_batch          *)
(* Each subsystem has its own specification; the variables of the others   *)
(* are parked at a fixed value.                                            *)
(***************************************************************************)
EXTENDS Integers, Sequences, FiniteSets, TLC

(***************************************************************************)
(* Bounds of the model.                                                    *)
(***************************************************************************)
\* number of concurrent tasks sharing one limiter
NumTasks == 2
\* acquire() calls made by the tasks altogether
MaxCalls == 3
\* last instant of the event-loop clock that is explored
MaxTime == 5
\* the event-loop clock is counted in ticks; TicksPerSecond ticks = 1 second
TicksPerSecond == 2

Tasks == 1..NumTasks
\* calls_per_second values a limiter is constructed with
Rates == {-1, 0, 1, 2}
NoTime == -1

\* ---- RateLimiter ----
VARIABLES
    rlKind,          \* "shared" (rate_limiter.py) or "llm" (llm.py)
    calls_per_second,
    rlState,         \* "unbuilt", "built", "raised"
    rlError,         \* exception raised by __init__, or "none"
    min_interval,
    last_call_time,
    lock,            \* 0 = free, t = task holding (or granted) _lock
    waiters,         \* FIFO of tasks waiting on _lock
    active_batches,
    clock,           \* asyncio event-loop time
    pc,              \* per task
    wake,            \* per task: instant its asyncio.sleep ends
    calls,           \* acquire() calls made so far
    lastReturn,      \* clock at the latest return of acquire()
    prevReturn       \* clock at the return of acquire() before that

rlVars == <<rlKind, calls_per_second, rlState, rlError, min_interval,
            last_call_time, lock, waiters, active_batches, clock, pc, wake,
            calls, lastReturn, prevReturn>>

\* ---- create_address_batches ----
VARIABLES
    cbDf,            \* input table: sequence of rows [id, full_address]
    cbHasIdCol,      \* "numberid_emp1" in df.columns
    batch_size,
    cbBatches,       \* returned list of batches
    cbPc             \* "input", "returned"

cbVars == <<cbDf, cbHasIdCol, batch_size, cbBatches, cbPc>>

\* ---- GoogleGeocoder ----
VARIABLES
    geoAddrs,        \* addresses: id -> {formatted_address, country, area, city}
    geoSession,      \* self._session is not None
    geoPathGiven,    \* coordinates_json_path is not None
    geoPc,           \* geocode_batch: "start", "running", "returned", "raised"
    gpc,             \* per id, its task: "none", "sem_wait", "call", "http",
                     \*   "sleep", "done", "failed"
    retries,         \* per id: local of _geocode_with_retry
    attempts,        \* per id: HTTP calls issued
    slept,           \* per id: delays slept between attempts
    lastKind,        \* per id: how the latest geocode() call went
    geoRet,          \* per id: what the latest geocode() call returned
    taskRes,         \* per id: result of its finished task
    semFree,         \* free permits of the semaphore
    geoActive,       \* RateLimiter.active_batches
    completed,       \* finished tasks not yet taken by the as_completed loop
    results,         \* results dict of geocode_batch
    processed,       \* loop counter of geocode_batch
    checkpoint,      \* content of the checkpoint file
    checkpoints,     \* number of checkpoint writes
    coordRows        \* rows of the coordinates table

geoVars == <<geoAddrs, geoSession, geoPathGiven, geoPc, gpc, retries, attempts,
             slept, lastKind, geoRet, taskRes, semFree, geoActive, completed,
             results, processed, checkpoint, checkpoints, coordRows>>

\* ---- AddressProcessor / normalise_addresses_using_llm ----
VARIABLES
    apHasKey,        \* os.getenv("GEMINI_API_KEY") is set
    dataset,         \* "rues" or "zasca"
    apFilter,        \* filter_against_zasca is not None
    apDf,            \* df: [hasFullAddress, hasIdCol, rows]
    apPc,            \* "start", "gather", "save", "compile", "returned",
                     \*   "raised", "aborted"
    apRet,           \* "pending", "None", "table", "ValueError"
    apDone,          \* steps process_addresses has gone through
    batches,         \* list returned by create_address_batches
    bpc,             \* per batch task: "pending", "running", "finished"
    bres,            \* per batch task: its result
    submitted,       \* batches handed to the provider
    saveIdx,         \* position of the save loop in results
    dirFiles,        \* files of the output directory
    writes,          \* calls of save_batch_result
    summary,         \* dict returned by normalise_addresses_using_llm
    records          \* rows compiled by _compile_results

apVars == <<apHasKey, dataset, apFilter, apDf, apPc, apRet, apDone, batches, bpc,
            bres, submitted, saveIdx, dirFiles, writes, summary, records>>

\* ---- merge_rues_zasca: record linkage ----
VARIABLES
    lkPc,                \* "loaded", "merged", "mapped", "centros", "yearcohorts"
    rues_with_coords,    \* pivoted RUES table
    zasca_with_coords,   \* ZASCA table with coordinates
    data_with_coords,    \* the linked table
    centro_ciiu_mapping  \* centro -> top CIIU codes of its participants

lkVars == <<lkPc, rues_with_coords, zasca_with_coords, data_with_coords, centro_ciiu_mapping>>

\* ---- merge_rues_zasca: clean_zasca_nit ----
VARIABLES
    nitPc,           \* "raw", "cleaned"
    nit,             \* zasca_total["nit"] of one row
    numberid_emp1,   \* zasca_total["numberid_emp1"] of that row
    nitRemapped,     \* the nit after the remapping, before the suffix step
    nitClean         \* zasca_clean["nit"] of that row

nitVars == <<nitPc, nit, numberid_emp1, nitRemapped, nitClean>>

\* ---- process_address_batch with make_llm_request, in time ----
\* times are in tenths of a second and relative to now: the code sees the
\* loop's clock only through differences and sleeps
VARIABLES
    llmInterval,   \* rate_limiter.min_interval
    sinceLast,     \* now - rate_limiter.last_call_time, capped at min_interval
    llmLock,       \* task holding rate_limiter._lock, 0 when free
    llmActive,     \* RateLimiter.active_batches
    lpc,           \* per batch task: "pending", "throttled", "calling",
                   \*   "backoff", "releasing", "finished"
    attempt,       \* per batch task: provider calls started so far
    ldelay,        \* per batch task: delay of the wrapper
    lwake,         \* per batch task: time left of its sleep
    lresult,       \* per batch task: the dict it returns
    lreply,        \* per batch task: response_text of make_llm_request
    sinceCall,     \* time since the latest provider call started, capped
    callGap        \* time between the starts of the latest two provider calls

llmVars == <<llmInterval, sinceLast, llmLock, llmActive, lpc, attempt, ldelay,
             lwake, lresult, lreply, sinceCall, callGap>>

\* ---- merge_rues_zasca: prepare_coordinates_data, pivot_rues_data ----
VARIABLES
    pvPc,          \* "off", "loaded", "prepared", "pivoted", "raised"
    rues_total,    \* rows of the registry panel: nit, source_year, city
    all_coords,    \* coordinate records of registry and participants: nit, place
    rues_joined,   \* rues_total.merge(all_coords, on="nit", how="inner")
    rues_pivoted   \* rows pivot_rues_data returns

pvVars == <<pvPc, rues_total, all_coords, rues_joined, rues_pivoted>>

\* ---- normalise_addresses_using_llm: the batch tasks and the limiter's lock ----
VARIABLES
    tkPc,          \* "off", "gather", "returned"
    tkLock,        \* task inside "async with self._lock", 0 when the lock is free
    tkActive,      \* RateLimiter.active_batches
    tpc,           \* per task: "pending", "acquiring", "calling", "backoff",
                   \*   "releasing", "finished"
    tAttempt,      \* per task: provider calls started
    tResults,      \* per task: the result dicts it has returned, by status
    tkSummary      \* the summary normalise_addresses_using_llm returns

tkVars == <<tkPc, tkLock, tkActive, tpc, tAttempt, tResults, tkSummary>>

vars == <<rlVars, cbVars, geoVars, apVars, lkVars, nitVars, llmVars, pvVars, tkVars>>

\* what an action of one subsystem leaves alone in the others
RLFrame == UNCHANGED <<cbVars, geoVars, apVars, lkVars, nitVars, llmVars, pvVars, tkVars>>
CBFrame == UNCHANGED <<rlVars, geoVars, apVars, lkVars, nitVars, llmVars, pvVars, tkVars>>
GeoFrame == UNCHANGED <<rlVars, cbVars, apVars, lkVars, nitVars, llmVars, pvVars, tkVars>>
APFrame == UNCHANGED <<rlVars, cbVars, geoVars, lkVars, nitVars, llmVars, pvVars, tkVars>>
LKFrame == UNCHANGED <<rlVars, cbVars, geoVars, apVars, nitVars, llmVars, pvVars, tkVars>>
LlmFrame == UNCHANGED <<rlVars, cbVars, geoVars, apVars, lkVars, nitVars, pvVars, tkVars>>
NitFrame == UNCHANGED <<rlVars, cbVars, geoVars, apVars, lkVars, llmVars, pvVars, tkVars>>
PVFrame == UNCHANGED <<rlVars, cbVars, geoVars, apVars, lkVars, nitVars, llmVars, tkVars>>
TKFrame == UNCHANGED <<rlVars, cbVars, geoVars, apVars, lkVars, nitVars, llmVars, pvVars>>

(***************************************************************************)
(* RateLimiter                                                             *)
(***************************************************************************)

\* 1.0 / calls_per_second, in ticks (r # 0)
Interval(r) == IF r > 0 THEN TicksPerSecond \div r ELSE 0 - (TicksPerSecond \div (0 - r))

\* rate_limiter.py: __init__ rejects a non-positive rate
SharedInitRaises(r) == r <= 0

\* llm.py: __init__ has no check; only 1.0 / 0 raises
LlmInitRaises(r) == r = 0

\* argument of asyncio.sleep in acquire()
WaitTimeSwapped(now, last) == (now - last) - min_interval
WaitTime(now, last) == min_interval - (now - last)

RLInit ==
    /\ rlKind \in {"shared", "llm"}
    /\ calls_per_second \in Rates
    /\ rlState = "unbuilt"
    /\ rlError = "none"
    /\ min_interval = 0
    /\ last_call_time = 0
    /\ lock = 0
    /\ waiters = <<>>
    /\ active_batches = 0
    /\ clock \in {0, 3}
    /\ pc = [t \in Tasks |-> "idle"]
    /\ wake = [t \in Tasks |-> 0]
    /\ calls = 0
    /\ lastReturn = NoTime
    /\ prevReturn = NoTime

\* RateLimiter.__init__ of either class
Construct ==
    /\ RLFrame
    /\ rlState = "unbuilt"
    /\ IF rlKind = "shared" /\ SharedInitRaises(calls_per_second)
         THEN /\ rlState' = "raised"
              /\ rlError' = "ValueError"
              /\ UNCHANGED min_interval
         ELSE IF rlKind = "llm" /\ LlmInitRaises(calls_per_second)
         THEN /\ rlState' = "raised"
              /\ rlError' = "ZeroDivisionError"
              /\ UNCHANGED min_interval
         ELSE /\ rlState' = "built"
              /\ rlError' = "none"
              /\ min_interval' = Interval(calls_per_second)
    /\ UNCHANGED <<rlKind, calls_per_second, last_call_time, lock, waiters,
                   active_batches, clock, pc, wake, calls, lastReturn, prevReturn>>

\* asyncio.Lock.release(): the first waiter, if any, is granted the lock
ReleaseLock ==
    IF waiters = <<>>
      THEN lock' = 0 /\ waiters' = waiters
      ELSE lock' = Head(waiters) /\ waiters' = Tail(waiters)

\* end of acquire(): stamp last_call_time, leave the lock, return
AcquireReturn(t) ==
    /\ last_call_time' = clock
    /\ ReleaseLock
    /\ pc' = [pc EXCEPT ![t] = "held"]
    /\ prevReturn' = lastReturn
    /\ lastReturn' = clock
    /\ UNCHANGED wake

\* body of acquire() under the lock, up to the sleep or the return
AcquireBody(t) ==
    /\ active_batches' = active_batches + 1
    /\ IF clock - last_call_time < min_interval
         THEN /\ pc' = [pc EXCEPT ![t] = "acq_sleep"]
              /\ wake' = [wake EXCEPT ![t] = clock + WaitTime(clock, last_call_time)]
              /\ lock' = t
              /\ UNCHANGED <<waiters, last_call_time, lastReturn, prevReturn>>
         ELSE AcquireReturn(t)

\* body of release() under the lock
ReleaseBody(t) ==
    /\ active_batches' = active_batches - 1
    /\ ReleaseLock
    /\ pc' = [pc EXCEPT ![t] = "idle"]

\* a task calls acquire(): it enters the lock at once or queues on it
Acquire(t) ==
    /\ RLFrame
    /\ rlState = "built"
    /\ pc[t] = "idle"
    /\ calls < MaxCalls
    /\ calls' = calls + 1
    /\ IF lock = 0 /\ waiters = <<>>
         THEN AcquireBody(t)
         ELSE /\ pc' = [pc EXCEPT ![t] = "acq_wait"]
              /\ waiters' = Append(waiters, t)
              /\ UNCHANGED <<lock, active_batches, last_call_time, wake,
                             lastReturn, prevReturn>>
    /\ UNCHANGED <<rlKind, calls_per_second, rlState, rlError, min_interval,
                   clock>>

\* a task queued in acquire() is granted the lock and runs the body
AcquireGranted(t) ==
    /\ RLFrame
    /\ pc[t] = "acq_wait"
    /\ lock = t
    /\ AcquireBody(t)
    /\ UNCHANGED <<rlKind, calls_per_second, rlState, rlError, min_interval,
                   clock, calls>>

\* the asyncio.sleep inside acquire() is over
WakeUp(t) ==
    /\ RLFrame
    /\ pc[t] = "acq_sleep"
    /\ clock >= wake[t]
    /\ AcquireReturn(t)
    /\ UNCHANGED <<rlKind, calls_per_second, rlState, rlError, min_interval,
                   active_batches, clock, calls>>

\* a task calls release(): it enters the lock at once or queues on it
Release(t) ==
    /\ RLFrame
    /\ pc[t] = "held"
    /\ IF lock = 0 /\ waiters = <<>>
         THEN ReleaseBody(t)
         ELSE /\ pc' = [pc EXCEPT ![t] = "rel_wait"]
              /\ waiters' = Append(waiters, t)
              /\ UNCHANGED <<lock, active_batches>>
    /\ UNCHANGED <<rlKind, calls_per_second, rlState, rlError, min_interval,
                   last_call_time, clock, wake, lastReturn, prevReturn, calls>>

\* a task queued in release() is granted the lock and runs the body
ReleaseGranted(t) ==
    /\ RLFrame
    /\ pc[t] = "rel_wait"
    /\ lock = t
    /\ ReleaseBody(t)
    /\ UNCHANGED <<rlKind, calls_per_second, rlState, rlError, min_interval,
                   last_call_time, clock, wake, lastReturn, prevReturn, calls>>

\* the event-loop clock advances
Tick ==
    /\ RLFrame
    /\ clock < MaxTime
    /\ clock' = clock + 1
    /\ UNCHANGED <<rlKind, calls_per_second, rlState, rlError, min_interval,
                   last_call_time, lock, waiters, active_batches, pc, wake,
                   calls, lastReturn, prevReturn>>

NextRateLimiter ==
    \/ Construct
    \/ \E t \in Tasks : Acquire(t)
    \/ \E t \in Tasks : AcquireGranted(t)
    \/ \E t \in Tasks : WakeUp(t)
    \/ \E t \in Tasks : Release(t)
    \/ \E t \in Tasks : ReleaseGranted(t)
    \/ Tick

\* the limiter is not in use
RLOff ==
    /\ rlKind = "shared"
    /\ calls_per_second = 1
    /\ rlState = "unbuilt"
    /\ rlError = "none"
    /\ min_interval = 0
    /\ last_call_time = 0
    /\ lock = 0
    /\ waiters = <<>>
    /\ active_batches = 0
    /\ clock = 0
    /\ pc = [t \in Tasks |-> "idle"]
    /\ wake = [t \in Tasks |-> 0]
    /\ calls = 0
    /\ lastReturn = NoTime
    /\ prevReturn = NoTime


(***************************************************************************)
(* create_address_batches                                                  *)
(***************************************************************************)
\* rows of the table handed to create_address_batches
MaxRows == 4
\* distinct identifiers
NumIds == 4
\* largest batch_size tried
MaxBatchSize == 2

RowIds == 1..NumIds
\* a full_address cell: NaN, or a string (sequence of characters)
NaN == [nan |-> TRUE, s |-> <<>>]
Str(s) == [nan |-> FALSE, s |-> s]
Cells == {NaN, Str(<<" ">>), Str(<<" ", "b">>)}

\* Series.fillna("")
FillNa(c) == IF c.nan THEN <<>> ELSE c.s

IsSpace(ch) == ch = " "

\* str.strip()
RECURSIVE LStrip(_)
LStrip(s) == IF s # <<>> /\ IsSpace(Head(s)) THEN LStrip(Tail(s)) ELSE s
RECURSIVE RStrip(_)
RStrip(s) ==
    IF s # <<>> /\ IsSpace(s[Len(s)]) THEN RStrip(SubSeq(s, 1, Len(s) - 1)) ELSE s
Strip(s) == RStrip(LStrip(s))

\* an insertion-ordered dict is a sequence of <<key, value>> with distinct keys
DictKeys(d) == {d[i][1] : i \in 1..Len(d)}
DictHas(d, k) == k \in DictKeys(d)
DictGet(d, k) == LET i == CHOOSE j \in 1..Len(d) : d[j][1] = k IN d[i][2]
\* d[k] = v: a new key goes last, an old key keeps its place and takes v
DictSet(d, k, v) ==
    IF DictHas(d, k)
      THEN [i \in 1..Len(d) |-> IF d[i][1] = k THEN <<k, v>> ELSE d[i]]
      ELSE Append(d, <<k, v>>)

\* dict(zip(df["numberid_emp1"], df["full_address"].fillna("")))
RECURSIVE DictZip(_, _)
DictZip(rows, acc) ==
    IF rows = <<>> THEN acc
    ELSE DictZip(Tail(rows), DictSet(acc, Head(rows).id, FillNa(Head(rows).full_address)))

\* {id_: addr for id_, addr in addresses.items() if addr.strip()}
KeepsAll(addr) == TRUE
KeepsAddress(addr) == Strip(addr) # <<>>
RECURSIVE FilterBlank(_)
FilterBlank(d) ==
    IF d = <<>> THEN <<>>
    ELSE IF KeepsAddress(Head(d)[2]) THEN <<Head(d)>> \o FilterBlank(Tail(d))
         ELSE FilterBlank(Tail(d))

\* for i in range(0, len(items), batch_size): items[i : i + batch_size]
RECURSIVE Chunks(_, _)
Chunks(items, n) ==
    IF items = <<>> THEN <<>>
    ELSE IF Len(items) <= n THEN <<items>>
    ELSE <<SubSeq(items, 1, n)>> \o Chunks(SubSeq(items, n + 1, Len(items)), n)

\* create_address_batches(df, batch_size)
CreateAddressBatches(hasIdCol, rows, n) ==
    IF ~hasIdCol THEN <<>>
    ELSE Chunks(FilterBlank(DictZip(rows, <<>>)), n)

CbRows == [id : RowIds, full_address : Cells]
\* the identifier column is unique
UniqueIds(rows) == \A i, j \in 1..Len(rows) : rows[i].id = rows[j].id => i = j
\* tables of n rows with a unique identifier column
TablesOfLen(n) ==
    {[i \in 1..n |-> [id |-> ids[i], full_address |-> cells[i]]] :
        ids \in {f \in [1..n -> RowIds] : \A i, j \in 1..n : f[i] = f[j] => i = j},
        cells \in [1..n -> Cells]}
\* tables of at most MaxRows rows
CbTables(maxRows) == UNION {TablesOfLen(n) : n \in 0..maxRows}

CBInit ==
    /\ cbDf \in CbTables(MaxRows)
    /\ cbHasIdCol \in BOOLEAN
    /\ batch_size \in 1..MaxBatchSize
    /\ cbBatches = <<>>
    /\ cbPc = "input"

CBOff ==
    /\ cbDf = <<>>
    /\ cbHasIdCol = TRUE
    /\ batch_size = 1
    /\ cbBatches = <<>>
    /\ cbPc = "input"

\* one call of create_address_batches
CallCreateAddressBatches ==
    /\ CBFrame
    /\ cbPc = "input"
    /\ cbBatches' = CreateAddressBatches(cbHasIdCol, cbDf, batch_size)
    /\ cbPc' = "returned"
    /\ UNCHANGED <<cbDf, cbHasIdCol, batch_size>>

(***************************************************************************)
(* GoogleGeocoder                                                          *)
(***************************************************************************)
\* addresses handed to geocode_batch
NumAddr == 2
\* max_retries of geocode_batch (default 3)
MaxRetries == 1
\* max_concurrent of geocode_batch (default 10)
MaxConcurrent == 1
\* save_every of geocode_batch (default 50)
SaveEvery == 1
\* retry_delay of geocode_batch, in seconds
RetryDelay == 1

AddrIds == 1..NumAddr
None == "None"
\* a component: None, the empty string, a real value
Present == "Cl 1"
AddrFields == {"formatted_address", "country", "area", "city"}
AllPresent == [f \in AddrFields |-> Present]
AddrShapes ==
    {AllPresent, [AllPresent EXCEPT !["country"] = None],
     [AllPresent EXCEPT !["formatted_address"] = ""]}

\* how one HTTP call of geocode() can go: a complete OK reply, a reply with
\* another status, aiohttp.ClientError, an OK reply lacking an expected key,
\* an OK reply with an empty result list, a timeout
ReplyKinds == {"OK", "ZERO_RESULTS", "ClientError", "KeyError", "IndexError", "TimeoutError"}
\* data["status"] of the reply, when there is a reply
StatusOf(kind) ==
    CASE kind \in {"OK", "KeyError", "IndexError"} -> "OK"
      [] kind = "ZERO_RESULTS" -> "ZERO_RESULTS"
      [] OTHER -> None

NullPair == [gmaps_address |-> None, coords |-> None]
Located == [gmaps_address |-> "Cl. 1, Bogota", coords |-> <<"lat", "lng">>]
Raised(e) == [gmaps_address |-> "raised", coords |-> e]
NoCall == [gmaps_address |-> "no call", coords |-> None]

\* Python truthiness of a component
Truthy(v) == v # None /\ v # ""
\* not all([address, country, area, city])
AnyMissing(addr) == \E f \in AddrFields : ~Truthy(addr[f])
\* all(v is not None for v in addr.values())
NoneFree(addr) == \A f \in AddrFields : addr[f] # None

\* what geocode() returns or raises for one reply of the provider
AddressWithoutCoords(kind) ==
    CASE kind = "OK" -> [gmaps_address |-> "Cl. 1, Bogota", coords |-> None]
      [] kind = "ZERO_RESULTS" -> NullPair
      [] kind \in {"ClientError", "KeyError"} -> NullPair
      [] OTHER -> Raised(kind)
GeocodeOutcome(kind) ==
    CASE kind = "OK" -> Located
      [] kind = "ZERO_RESULTS" -> NullPair
      [] kind \in {"ClientError", "KeyError"} -> NullPair
      [] OTHER -> Raised(kind)

IsRaised(r) == r.gmaps_address = "raised"
\* except (aiohttp.ClientError, KeyError, TimeoutError) in _geocode_with_retry
CaughtByRetry(e) == e \in {"ClientError", "KeyError", "TimeoutError"}

RECURSIVE Pow2(_)
Pow2(n) == IF n = 0 THEN 1 ELSE 2 * Pow2(n - 1)
\* delay = retry_delay * (2 ** (retries - 1))
Backoff(k) == RetryDelay * Pow2(k - 1)

\* rows google_geocode builds from the results
CoordinateRows(res) ==
    {[id |-> a,
      gmaps_address |-> res[a].gmaps_address,
      latitude |-> IF res[a].coords # None THEN res[a].coords[1] ELSE None,
      longitude |-> IF res[a].coords # None THEN res[a].coords[2] ELSE None]
        : a \in DOMAIN res}

GeoInit ==
    /\ geoAddrs \in [AddrIds -> AddrShapes]
    /\ geoSession \in BOOLEAN
    /\ geoPathGiven \in BOOLEAN
    /\ geoPc = "start"
    /\ gpc = [a \in AddrIds |-> "none"]
    /\ retries = [a \in AddrIds |-> 0]
    /\ attempts = [a \in AddrIds |-> 0]
    /\ slept = [a \in AddrIds |-> <<>>]
    /\ lastKind = [a \in AddrIds |-> "none"]
    /\ geoRet = [a \in AddrIds |-> NoCall]
    /\ taskRes = [a \in AddrIds |-> NoCall]
    /\ semFree = MaxConcurrent
    /\ geoActive = 0
    /\ completed = <<>>
    /\ results = <<>>
    /\ processed = 0
    /\ checkpoint = None
    /\ checkpoints = 0
    /\ coordRows = {}

GeoOff ==
    /\ geoAddrs = [a \in AddrIds |-> AllPresent]
    /\ geoSession = TRUE
    /\ geoPathGiven = FALSE
    /\ geoPc = "start"
    /\ gpc = [a \in AddrIds |-> "none"]
    /\ retries = [a \in AddrIds |-> 0]
    /\ attempts = [a \in AddrIds |-> 0]
    /\ slept = [a \in AddrIds |-> <<>>]
    /\ lastKind = [a \in AddrIds |-> "none"]
    /\ geoRet = [a \in AddrIds |-> NoCall]
    /\ taskRes = [a \in AddrIds |-> NoCall]
    /\ semFree = MaxConcurrent
    /\ geoActive = 0
    /\ completed = <<>>
    /\ results = <<>>
    /\ processed = 0
    /\ checkpoint = None
    /\ checkpoints = 0
    /\ coordRows = {}

\* geocode_batch up to its first await: one task per address without a None
GeocodeBatchStart ==
    /\ GeoFrame
    /\ geoPc = "start"
    /\ geoPc' = "running"
    /\ gpc' = [a \in AddrIds |-> IF NoneFree(geoAddrs[a]) THEN "sem_wait" ELSE "none"]
    /\ UNCHANGED <<geoAddrs, geoSession, geoPathGiven, retries, attempts, slept,
                   lastKind, geoRet, taskRes, semFree, geoActive, completed,
                   results, processed, checkpoint, checkpoints, coordRows>>

\* asyncio.Semaphore.acquire returns at once only while a permit is free
PermitAlways(free) == TRUE
PermitFree(free) == free > 0

\* sem_task: async with semaphore
SemAcquire(a) ==
    /\ GeoFrame
    /\ geoPc = "running"
    /\ gpc[a] = "sem_wait"
    /\ PermitFree(semFree)
    /\ semFree' = semFree - 1
    /\ gpc' = [gpc EXCEPT ![a] = "call"]
    /\ UNCHANGED <<geoAddrs, geoSession, geoPathGiven, geoPc, retries, attempts,
                   slept, lastKind, geoRet, taskRes, geoActive, completed,
                   results, processed, checkpoint, checkpoints, coordRows>>

\* the task of a ends with result r: the semaphore is released
TaskEnds(a, r) ==
    /\ taskRes' = [taskRes EXCEPT ![a] = r]
    /\ gpc' = [gpc EXCEPT ![a] = IF IsRaised(r) THEN "failed" ELSE "done"]
    /\ semFree' = semFree + 1
    /\ completed' = Append(completed, a)

\* _geocode_with_retry after geocode() returned or raised ret
AfterGeocode(a, ret) ==
    IF ~IsRaised(ret)
      THEN /\ TaskEnds(a, ret)
           /\ UNCHANGED <<retries, slept>>
      ELSE IF ~CaughtByRetry(ret.coords)
      THEN /\ TaskEnds(a, ret)
           /\ UNCHANGED <<retries, slept>>
      ELSE /\ retries' = [retries EXCEPT ![a] = @ + 1]
           /\ IF retries[a] + 1 <= MaxRetries
                THEN /\ slept' = [slept EXCEPT ![a] = Append(@, Backoff(retries[a] + 1))]
                     /\ gpc' = [gpc EXCEPT ![a] = "sleep"]
                     /\ UNCHANGED <<taskRes, semFree, completed>>
                ELSE /\ TaskEnds(a, NullPair)
                     /\ UNCHANGED slept

\* geocode() from its call to the await of the rate limiter
GeocodeCall(a) ==
    /\ GeoFrame
    /\ gpc[a] = "call"
    /\ IF AnyMissing(geoAddrs[a])
         THEN /\ geoRet' = [geoRet EXCEPT ![a] = NullPair]
              /\ lastKind' = [lastKind EXCEPT ![a] = "missing"]
              /\ AfterGeocode(a, NullPair)
              /\ UNCHANGED geoActive
         ELSE /\ geoActive' = geoActive + 1
              /\ IF ~geoSession
                   THEN /\ geoRet' = [geoRet EXCEPT ![a] = Raised("RuntimeError")]
                        /\ lastKind' = [lastKind EXCEPT ![a] = "no session"]
                        /\ AfterGeocode(a, Raised("RuntimeError"))
                   ELSE /\ gpc' = [gpc EXCEPT ![a] = "http"]
                        /\ UNCHANGED <<geoRet, lastKind, retries, slept, taskRes,
                                       semFree, completed>>
    /\ UNCHANGED <<geoAddrs, geoSession, geoPathGiven, geoPc, attempts, results,
                   processed, checkpoint, checkpoints, coordRows>>

\* the HTTP call of geocode() ends: reply handling, release, and the retry logic
GeocodeReply(a, kind) ==
    /\ GeoFrame
    /\ gpc[a] = "http"
    /\ attempts' = [attempts EXCEPT ![a] = @ + 1]
    /\ lastKind' = [lastKind EXCEPT ![a] = kind]
    /\ geoRet' = [geoRet EXCEPT ![a] = GeocodeOutcome(kind)]
    /\ geoActive' = geoActive - 1
    /\ AfterGeocode(a, GeocodeOutcome(kind))
    /\ UNCHANGED <<geoAddrs, geoSession, geoPathGiven, geoPc, results, processed,
                   checkpoint, checkpoints, coordRows>>

\* the asyncio.sleep between two attempts is over
RetryWake(a) ==
    /\ GeoFrame
    /\ gpc[a] = "sleep"
    /\ gpc' = [gpc EXCEPT ![a] = "call"]
    /\ UNCHANGED <<geoAddrs, geoSession, geoPathGiven, geoPc, retries, attempts,
                   slept, lastKind, geoRet, taskRes, semFree, geoActive, completed,
                   results, processed, checkpoint, checkpoints, coordRows>>

NumTasksCreated == Cardinality({a \in AddrIds : NoneFree(geoAddrs[a])})

\* one round of the as_completed loop: the next finished task is awaited
Collect ==
    /\ GeoFrame
    /\ geoPc = "running"
    /\ completed # <<>>
    /\ LET a == Head(completed) IN
         /\ completed' = Tail(completed)
         /\ IF gpc[a] = "failed"
              THEN /\ geoPc' = "raised"
                   /\ UNCHANGED <<results, processed, checkpoint, checkpoints>>
              ELSE /\ geoPc' = geoPc
                   /\ results' = [x \in DOMAIN results \cup {a} |->
                                    IF x = a THEN taskRes[a] ELSE results[x]]
                   /\ processed' = processed + 1
                   /\ IF geoPathGiven /\ (processed + 1) % SaveEvery = 0
                        THEN /\ checkpoint' = results'
                             /\ checkpoints' = checkpoints + 1
                        ELSE UNCHANGED <<checkpoint, checkpoints>>
    /\ UNCHANGED <<geoAddrs, geoSession, geoPathGiven, gpc, retries, attempts,
                   slept, lastKind, geoRet, taskRes, semFree, geoActive, coordRows>>

\* all tasks were awaited: final checkpoint, return; the caller builds the rows
GeocodeBatchReturn ==
    /\ GeoFrame
    /\ geoPc = "running"
    /\ processed = NumTasksCreated
    /\ geoPc' = "returned"
    /\ IF geoPathGiven
         THEN /\ checkpoint' = results
              /\ checkpoints' = checkpoints + 1
         ELSE UNCHANGED <<checkpoint, checkpoints>>
    /\ coordRows' = CoordinateRows(results)
    /\ UNCHANGED <<geoAddrs, geoSession, geoPathGiven, gpc, retries, attempts,
                   slept, lastKind, geoRet, taskRes, semFree, geoActive, completed,
                   results, processed>>

NextGeocode ==
    \/ GeocodeBatchStart
    \/ \E a \in AddrIds : SemAcquire(a)
    \/ \E a \in AddrIds : GeocodeCall(a)
    \/ \E a \in AddrIds, kind \in ReplyKinds : GeocodeReply(a, kind)
    \/ \E a \in AddrIds : RetryWake(a)
    \/ Collect
    \/ GeocodeBatchReturn

(***************************************************************************)
(* AddressProcessor.process_addresses, normalise_addresses_using_llm,      *)
(* process_address_batch, save_batch_result, _compile_results              *)
(***************************************************************************)
\* rows of the table handed to process_addresses
ApMaxRows == 3
\* batch_size of normalise_addresses_using_llm (default 10)
ApBatchSize == 2

\* the address cells of a processor's table: blank, or text
ApCells == {Str(<<" ">>), Str(<<"b">>)}
\* tables whose k-th row has identifier k
ApTables(maxRows) ==
    UNION {{[i \in 1..n |-> [id |-> i, full_address |-> cells[i]]] :
                cells \in [1..n -> ApCells]} : n \in 0..maxRows}

\* json.dumps turns the identifiers into strings
JsonKey(id) == ToString(id)
\* a key the provider invents
ForeignKey == "999"

\* per-id entries of a reply: a JSON object with the four fields (null or
\* absent fields read as None), or something that is not an object
Entry(fa, co, ar, ci) ==
    [isdict |-> TRUE, formatted_address |-> fa, country |-> co, area |-> ar, city |-> ci]
AllSet == Entry("Calle 1 # 2-3", "CO", "Antioquia", "Medellin")
AllNull == Entry(None, None, None, None)
Partial == Entry("Calle 1", None, None, None)
NotDict == [AllNull EXCEPT !.isdict = FALSE]
Deviations == {AllNull, Partial, NotDict}

\* the reply every id of which has a complete entry
FullReply(batch) == [i \in 1..Len(batch) |-> <<JsonKey(batch[i][1]), AllSet>>]
\* one entry replaced
WithEntry(d, k, e) == [i \in 1..Len(d) |-> IF i = k THEN <<d[i][1], e>> ELSE d[i]]
\* one entry left out
RECURSIVE Without(_, _)
Without(d, k) ==
    IF d = <<>> THEN <<>>
    ELSE IF k = 1 THEN Tail(d) ELSE <<Head(d)>> \o Without(Tail(d), k - 1)

\* JSON objects the provider may answer a batch with: complete, or with one
\* entry deviating or missing, each with or without an invented key
DictBodies(batch) ==
    LET full == FullReply(batch)
        own == {full}
                 \cup {WithEntry(full, k, e) : k \in 1..Len(batch), e \in Deviations}
                 \cup {Without(full, k) : k \in 1..Len(batch)}
    IN own \cup {Append(d, <<ForeignKey, AllSet>>) : d \in own}

Reply(kind, body) == [kind |-> kind, body |-> body]
\* outcomes of make_llm_request: every attempt raised, text that is not JSON,
\* JSON that is not an object, a JSON object
Replies(batch) ==
    {Reply("raise", <<>>), Reply("notjson", <<>>), Reply("nondict", <<>>)}
        \cup {Reply("dict", d) : d \in DictBodies(batch)}
NoResponse == Reply("absent", <<>>)

\* json.dumps of the input map of a batch
InputJson(batch) == [i \in 1..Len(batch) |-> <<JsonKey(batch[i][1]), batch[i][2]>>]

\* process_address_batch: the result dict for one reply
BatchResult(batch_id, addresses, reply) ==
    IF reply.kind \in {"raise", "notjson"}
      THEN [batch_id |-> batch_id, status |-> "error",
            input_addresses |-> InputJson(addresses),
            response |-> NoResponse, error |-> reply.kind, processed_count |-> 0]
      ELSE [batch_id |-> batch_id, status |-> "success",
            input_addresses |-> InputJson(addresses),
            response |-> reply, error |-> "", processed_count |-> Len(addresses)]
NoResult ==
    [batch_id |-> -1, status |-> "none", input_addresses |-> <<>>,
     response |-> NoResponse, error |-> "", processed_count |-> 0]

\* f"batch_{batch_id:04d}_{status}.json"
FileName(result) == <<result.batch_id, result.status>>
\* open(output_path, "w"): a file of the same name is replaced
WriteFile(dir, result) ==
    {f \in dir : FileName(f) # FileName(result)} \cup {result}

\* build_rues_address: dirección_comercial + ", " + city + ", " + state + ", CO"
BuildRuesAddress(df) ==
    [hasFullAddress |-> TRUE, hasIdCol |-> TRUE,
     rows |-> [i \in 1..Len(df.rows) |->
                 [id |-> df.rows[i].id,
                  full_address |-> Str(FillNa(df.rows[i].full_address) \o <<",", " ", "C", "O">>)]]]

\* subsequences of a list of rows
RECURSIVE SubSeqs(_)
SubSeqs(rows) ==
    IF rows = <<>> THEN {<<>>}
    ELSE LET rest == SubSeqs(Tail(rows))
         IN rest \cup {<<Head(rows)>> \o r : r \in rest}

\* not os.getenv("GEMINI_API_KEY")
KeyNeverMissing(hasKey) == FALSE
KeyMissing(hasKey) == ~hasKey

\* "full_address" not in df.columns
ColumnNeverMissing(df) == FALSE
ColumnMissing(df) == ~df.hasFullAddress

\* rows _compile_results appends for one success file
RECURSIVE RowsOfBody(_, _)
RowsOfBody(body, input) ==
    IF body = <<>> THEN <<>>
    ELSE LET id_ == Head(body)[1]
             result == Head(body)[2]
         IN IF ~result.isdict THEN RowsOfBody(Tail(body), input)
            ELSE <<[id |-> id_,
                    raw_address |-> IF DictHas(input, id_) THEN DictGet(input, id_) ELSE <<>>,
                    formatted_address |-> result.formatted_address,
                    country |-> result.country,
                    area |-> result.area,
                    city |-> result.city]>> \o RowsOfBody(Tail(body), input)

\* a key of the object a batch file holds
Field(f, k) == k \in DOMAIN f
HasDictEntry(body) == \E i \in 1..Len(body) : body[i][2].isdict
\* the exception the loop body raises for a file, "" when it raises none:
\* json.load(f), batch["response"], json.loads(batch["response"]), and
\* batch["input_addresses"] at the first entry that is an object
RaisedIn(f) ==
    IF Field(f, "text") THEN "JSONDecodeError"
    ELSE IF ~Field(f, "response") THEN "KeyError"
    ELSE IF f.response.kind = "notjson" THEN "JSONDecodeError"
    ELSE IF /\ f.response.kind = "dict"
            /\ HasDictEntry(f.response.body)
            /\ ~Field(f, "input_addresses") THEN "KeyError"
    ELSE ""

\* the raise comes before the first records.append of the file
RowsOfFile(f) ==
    IF RaisedIn(f) # "" THEN <<>>
    ELSE IF f.response.kind # "dict" THEN <<>>
    ELSE IF ~Field(f, "input_addresses") THEN <<>>
    ELSE RowsOfBody(f.response.body, f.input_addresses)

\* the loop without its except clauses: the first raise ends it
RECURSIVE CompileUntilRaise(_)
CompileUntilRaise(files) ==
    IF files = <<>> THEN <<>>
    ELSE IF RaisedIn(Head(files)) # "" THEN <<>>
    ELSE RowsOfFile(Head(files)) \o CompileUntilRaise(Tail(files))

\* _compile_results over the success files in the order glob lists them
RECURSIVE CompileFiles(_)
CompileFiles(files) ==
    IF files = <<>> THEN <<>>
    ELSE RowsOfFile(Head(files)) \o CompileFiles(Tail(files))

SuccessFiles(dir) == {f \in dir : f.status = "success"}
\* the orders a set of files can be listed in
Orderings(S) ==
    {q \in [1..Cardinality(S) -> S] : \A i, j \in 1..Cardinality(S) : q[i] = q[j] => i = j}

APInit ==
    /\ apHasKey \in BOOLEAN
    /\ dataset \in {"rues", "zasca"}
    /\ apFilter \in BOOLEAN
    /\ apDf \in [hasFullAddress : BOOLEAN, hasIdCol : BOOLEAN, rows : ApTables(ApMaxRows)]
    /\ dataset = "zasca" => ~apFilter
    /\ dataset = "rues" => (~apDf.hasFullAddress /\ ~apDf.hasIdCol)
    /\ apPc = "start"
    /\ apRet = "pending"
    /\ apDone = {}
    /\ batches = <<>>
    /\ bpc = <<>>
    /\ bres = <<>>
    /\ submitted = 0
    /\ saveIdx = 0
    /\ dirFiles = {}
    /\ writes = 0
    /\ summary = <<0, 0, 0>>
    /\ records = <<>>

APOff ==
    /\ apHasKey = TRUE
    /\ dataset = "zasca"
    /\ apFilter = FALSE
    /\ apDf = [hasFullAddress |-> TRUE, hasIdCol |-> TRUE, rows |-> <<>>]
    /\ apPc = "start"
    /\ apRet = "pending"
    /\ apDone = {}
    /\ batches = <<>>
    /\ bpc = <<>>
    /\ bres = <<>>
    /\ submitted = 0
    /\ saveIdx = 0
    /\ dirFiles = {}
    /\ writes = 0
    /\ summary = <<0, 0, 0>>
    /\ records = <<>>

\* normalise_addresses_using_llm up to asyncio.gather, for the adapted table
Normalise(df, done) ==
    LET bs == CreateAddressBatches(df.hasIdCol, df.rows, ApBatchSize) IN
    /\ apDf' = df
    /\ batches' = bs
    /\ bpc' = [i \in 1..Len(bs) |-> "pending"]
    /\ bres' = [i \in 1..Len(bs) |-> NoResult]
    /\ apDone' = done \cup {"batch"}
    /\ apPc' = IF bs = <<>> THEN "compile" ELSE "gather"
    /\ apRet' = "pending"

\* process_addresses after the credential check, for the adapted table
CheckAndNormalise(df, done) ==
    IF ColumnMissing(df)
      THEN /\ apPc' = "raised"
           /\ apRet' = "ValueError"
           /\ apDf' = df
           /\ apDone' = done
           /\ UNCHANGED <<batches, bpc, bres>>
      ELSE Normalise(df, done)

\* process_addresses from its call to its first await, return or raise
ProcessAddresses ==
    /\ APFrame
    /\ apPc = "start"
    /\ IF KeyMissing(apHasKey)
         THEN /\ apPc' = "returned"
              /\ apRet' = "None"
              /\ UNCHANGED <<apDf, apDone, batches, bpc, bres>>
         ELSE IF dataset = "rues"
         THEN IF apFilter
                THEN \E kept \in SubSeqs(apDf.rows) :
                       CheckAndNormalise(BuildRuesAddress([apDf EXCEPT !.rows = kept]),
                                         {"filter", "adapt"})
                ELSE CheckAndNormalise(BuildRuesAddress(apDf), {"adapt"})
         ELSE CheckAndNormalise(apDf, {"adapt"})
    /\ UNCHANGED <<apHasKey, dataset, apFilter, submitted, saveIdx, dirFiles,
                   writes, summary, records>>

\* process_address_batch: the limiter admits the task, the request is sent
BatchStart(i) ==
    /\ APFrame
    /\ apPc = "gather"
    /\ i \in 1..Len(batches)
    /\ bpc[i] = "pending"
    /\ bpc' = [bpc EXCEPT ![i] = "running"]
    /\ submitted' = submitted + 1
    /\ apDone' = apDone \cup {"submit"}
    /\ UNCHANGED <<apHasKey, dataset, apFilter, apDf, apPc, apRet, batches, bres,
                   saveIdx, dirFiles, writes, summary, records>>

\* process_address_batch: make_llm_request is over, the task returns its result
BatchReply(i, reply) ==
    /\ APFrame
    /\ apPc = "gather"
    /\ i \in 1..Len(batches)
    /\ bpc[i] = "running"
    /\ reply \in Replies(batches[i])
    /\ bpc' = [bpc EXCEPT ![i] = "finished"]
    /\ bres' = [bres EXCEPT ![i] = BatchResult(i - 1, batches[i], reply)]
    /\ UNCHANGED <<apHasKey, dataset, apFilter, apDf, apPc, apRet, apDone, batches,
                   submitted, saveIdx, dirFiles, writes, summary, records>>

\* asyncio.gather returns once every task has finished
GatherReturns ==
    /\ APFrame
    /\ apPc = "gather"
    /\ \A i \in 1..Len(batches) : bpc[i] = "finished"
    /\ apPc' = "save"
    /\ saveIdx' = 1
    /\ UNCHANGED <<apHasKey, dataset, apFilter, apDf, apRet, apDone, batches, bpc,
                   bres, submitted, dirFiles, writes, summary, records>>

\* one round of the loop "for result in results": save_batch_result and count
SaveBatchResult ==
    /\ APFrame
    /\ apPc = "save"
    /\ saveIdx <= Len(bres)
    /\ dirFiles' = WriteFile(dirFiles, bres[saveIdx])
    /\ writes' = writes + 1
    /\ apDone' = apDone \cup {"write"}
    /\ summary' = IF bres[saveIdx].status = "success"
                    THEN <<Len(batches), summary[2] + 1, summary[3]>>
                    ELSE <<Len(batches), summary[2], summary[3] + 1>>
    /\ saveIdx' = saveIdx + 1
    /\ apPc' = IF saveIdx = Len(bres) THEN "compile" ELSE "save"
    /\ UNCHANGED <<apHasKey, dataset, apFilter, apDf, apRet, batches, bpc, bres,
                   submitted, records>>

\* _compile_results and the return of process_addresses
CompileResults ==
    /\ APFrame
    /\ apPc = "compile"
    /\ \E order \in Orderings(SuccessFiles(dirFiles)) :
         /\ records' = CompileFiles(order)
         /\ apRet' = IF CompileFiles(order) = <<>> THEN "None" ELSE "table"
    /\ apPc' = "returned"
    /\ apDone' = apDone \cup {"compile"}
    /\ UNCHANGED <<apHasKey, dataset, apFilter, apDf, batches, bpc, bres, submitted,
                   saveIdx, dirFiles, writes, summary>>

\* the process is terminated while the run is under way
Abort ==
    /\ APFrame
    /\ apPc \in {"gather", "save", "compile"}
    /\ apPc' = "aborted"
    /\ UNCHANGED <<apHasKey, dataset, apFilter, apDf, apRet, apDone, batches, bpc,
                   bres, submitted, saveIdx, dirFiles, writes, summary, records>>

\* batch files an output directory holds when a run reaches the compile step
MaxStored == 3
\* the batch a stored file of that number was written for
StoredBatch(b) == <<<<b + 1, Str(<<"b">>)>>>>
\* what a file batch_{b}_{status}.json can hold: what save_batch_result
\* writes for a reply, or a damaged copy of it (cut short, a key lost, the
\* response string overwritten)
StoredShapes(b) ==
    LET batch == StoredBatch(b)
        full == FullReply(batch)
        good == BatchResult(b, batch, Reply("dict", full))
    IN {good,
        BatchResult(b, batch, Reply("dict", Append(WithEntry(full, 1, NotDict),
                                                     <<ForeignKey, AllSet>>))),
        BatchResult(b, batch, Reply("nondict", <<>>)),
        BatchResult(b, batch, Reply("raise", <<>>)),
        [good EXCEPT !.response = Reply("notjson", <<>>)],
        [batch_id |-> b, status |-> "success", text |-> "{"],
        [batch_id |-> b, status |-> "success", input_addresses |-> InputJson(batch),
         error |-> "", processed_count |-> 1],
        [batch_id |-> b, status |-> "success", response |-> Reply("dict", full),
         error |-> "", processed_count |-> 1]}
\* directories with at most one file per batch number
RECURSIVE Directories(_)
Directories(n) ==
    IF n = 0 THEN {{}}
    ELSE LET rest == Directories(n - 1)
         IN rest \cup {dir \cup {f} : dir \in rest, f \in StoredShapes(n - 1)}

\* process_addresses of an empty ZASCA table has reached _compile_results
\* on an output directory that holds files
CompileInit ==
    /\ apHasKey = TRUE
    /\ dataset \in {"rues", "zasca"}
    /\ apFilter = FALSE
    /\ apDf = [hasFullAddress |-> TRUE, hasIdCol |-> TRUE, rows |-> <<>>]
    /\ apPc = "compile"
    /\ apRet = "pending"
    /\ apDone = {"adapt", "batch"}
    /\ batches = <<>>
    /\ bpc = <<>>
    /\ bres = <<>>
    /\ submitted = 0
    /\ saveIdx = 0
    /\ dirFiles \in Directories(MaxStored)
    /\ writes = 0
    /\ summary = <<0, 0, 0>>
    /\ records = <<>>

\* rows of the table of a run that is repeated
RerunRows == 1

\* process_addresses is called again for the same ZASCA table by a processor
\* built on the same output directory: the files of the directory stay
RunAgain ==
    /\ APFrame
    /\ apPc \in {"returned", "aborted"}
    /\ dataset = "zasca"
    /\ apPc' = "start"
    /\ apRet' = "pending"
    /\ apDone' = {}
    /\ batches' = <<>>
    /\ bpc' = <<>>
    /\ bres' = <<>>
    /\ submitted' = 0
    /\ saveIdx' = 0
    /\ writes' = 0
    /\ summary' = <<0, 0, 0>>
    /\ records' = <<>>
    /\ UNCHANGED <<apHasKey, dataset, apFilter, apDf, dirFiles>>

NextAddress ==
    \/ ProcessAddresses
    \/ \E i \in 1..ApMaxRows : BatchStart(i)
    \/ \E i \in 1..ApMaxRows : \E reply \in Replies(IF i <= Len(batches) THEN batches[i] ELSE <<>>) :
            BatchReply(i, reply)
    \/ GatherReturns
    \/ SaveBatchResult
    \/ CompileResults
    \/ Abort

(***************************************************************************)
(* scripts/geolocation/merge_rues_zasca.py: merge_datasets                 *)
(***************************************************************************)
\* rows of each table handed to merge_datasets
MaxRues == 2
MaxZasca == 2

\* a null number, a null string
NaNum == -1
NaStr == "nan"
\* tax ids, in the lexicographic order an outer merge sorts its keys in
SortedNits == <<"0", "1", "7">>
Nits == {SortedNits[i] : i \in 1..Len(SortedNits)}

RuesRow(key, lat, ciiu) == [nit |-> key, latitude |-> lat, ciiu_principal_2023 |-> ciiu]
ZascaRow(key, lat, centro, yc) ==
    [nit |-> key, latitude |-> lat, centro |-> centro, yearcohort |-> yc, sales2022s |-> 1]
\* the columns an outer merge leaves null on the side that has no row
NoRues == RuesRow(NaStr, NaNum, NaNum)
NoZasca == [ZascaRow(NaStr, NaNum, NaStr, NaNum) EXCEPT !.sales2022s = NaNum]

\* one row of rues.merge(zasca, on="nit", how="outer"), the shared columns
\* combined with fillna and the suffixed ones dropped
Joined(key, l, r) ==
    [nit |-> key,
     latitude |-> IF l.latitude # NaNum THEN l.latitude ELSE r.latitude,
     ciiu_principal_2023 |-> l.ciiu_principal_2023,
     centro |-> r.centro,
     yearcohort |-> r.yearcohort,
     sales2022s |-> r.sales2022s]

\* the rows of the merge for one key: left x right, or the side that has it
RowsForKey(k, left, right) ==
    LET HasKey(row) == row.nit = k
        L == SelectSeq(left, HasKey)
        R == SelectSeq(right, HasKey)
    IN IF L = <<>> THEN [j \in 1..Len(R) |-> Joined(k, NoRues, R[j])]
       ELSE IF R = <<>> THEN [i \in 1..Len(L) |-> Joined(k, L[i], NoZasca)]
       ELSE [m \in 1..(Len(L) * Len(R)) |->
                Joined(k, L[((m - 1) \div Len(R)) + 1], R[((m - 1) % Len(R)) + 1])]

RECURSIVE OuterMergeFrom(_, _, _)
OuterMergeFrom(i, left, right) ==
    IF i > Len(SortedNits) THEN <<>>
    ELSE RowsForKey(SortedNits[i], left, right) \o OuterMergeFrom(i + 1, left, right)

\* the merged frame with its RangeIndex labels
OuterMerge(left, right) ==
    LET rows == OuterMergeFrom(1, left, right)
    IN [i \in 1..Len(rows) |-> [name |-> i - 1, row |-> rows[i]]]

\* drop_duplicates(subset=["nit"]): the first row of each nit stays
KeepAllRows(frame) == frame
DropDuplicates(frame) ==
    LET First(i) == \A j \in 1..(i - 1) : frame[j].row.nit # frame[i].row.nit
        RECURSIVE From(_)
        From(i) == IF i > Len(frame) THEN <<>>
                   ELSE IF First(i) THEN <<frame[i]>> \o From(i + 1) ELSE From(i + 1)
    IN From(1)

\* rename nit to up_id
Renamed(ir) ==
    [name |-> ir.name, up_id |-> ir.row.nit, latitude |-> ir.row.latitude,
     ciiu_principal_2023 |-> ir.row.ciiu_principal_2023, centro |-> ir.row.centro,
     yearcohort |-> ir.row.yearcohort, sales2022s |-> ir.row.sales2022s]

\* ~up_id.isin(["0", "1"])
NotPlaceholder(r) == r.up_id \notin {"0", "1"}

MergeDatasetsResult(left, right) ==
    LET unique == DropDuplicates(OuterMerge(left, right))
        renamed == [i \in 1..Len(unique) |-> Renamed(unique[i])]
    IN SelectSeq(renamed, NotPlaceholder)

\* lists of rows up to a length
SeqsOver(S, n) == UNION {[1..k -> S] : k \in 0..n}

RuesRows == {RuesRow(n, lat, 10) : n \in Nits, lat \in {1, 2}}
ZascaRows == {ZascaRow(n, lat, "Suba", 2023) : n \in Nits, lat \in {NaNum, 3}}

LKInit ==
    /\ lkPc = "loaded"
    /\ rues_with_coords \in SeqsOver(RuesRows, MaxRues)
    /\ zasca_with_coords \in SeqsOver(ZascaRows, MaxZasca)
    /\ data_with_coords = <<>>
    /\ centro_ciiu_mapping = <<>>

LKOff ==
    /\ lkPc = "off"
    /\ rues_with_coords = <<>>
    /\ zasca_with_coords = <<>>
    /\ data_with_coords = <<>>
    /\ centro_ciiu_mapping = <<>>

MergeDatasets ==
    /\ LKFrame
    /\ lkPc = "loaded"
    /\ data_with_coords' = MergeDatasetsResult(rues_with_coords, zasca_with_coords)
    /\ lkPc' = "merged"
    /\ UNCHANGED <<rues_with_coords, zasca_with_coords, centro_ciiu_mapping>>

(***************************************************************************)
(* merge_rues_zasca.py: get_centro_ciiu_mapping, assign_control_centros,   *)
(* find_closest_centro_with_ciiu_match, assign_yearcohorts                 *)
(***************************************************************************)
\* rows of the linked table the assignment steps start from
MaxLinked == 3

\* centros_zasca in the order of the dict, three of its centers, each at a
\* point of a line that stands for the map
CentroNames == <<"Manrique", "Medellin", "Suba">>
Centros == {CentroNames[i] : i \in 1..Len(CentroNames)}
CentroPosition(c) == CASE c = "Manrique" -> 0 [] c = "Medellin" -> 1 [] OTHER -> 4

\* haversine_distance on the line
Abs(x) == IF x < 0 THEN -x ELSE x
Distance(lat, c) == Abs(lat - CentroPosition(c))
\* "distance < min_distance": a distance from null coordinates is NaN, and
\* no comparison with NaN is true
CloserThan(lat, c, best) ==
    /\ lat # NaNum
    /\ (best = NaStr \/ Distance(lat, c) < Distance(lat, best))

\* rows with sales2022s not null
IsParticipant(r) == r.sales2022s # NaNum

\* value_counts().head(3) of the CIIU codes of a center's participants (the
\* tables here never hold more than three distinct codes)
TopCiiuCodes(data, c) ==
    {data[i].ciiu_principal_2023 : i \in {j \in 1..Len(data) :
        /\ IsParticipant(data[j])
        /\ data[j].centro = c
        /\ data[j].ciiu_principal_2023 # NaNum}}

CentroCiiuMapping(data) == [c \in Centros |-> TopCiiuCodes(data, c)]

\* the loop over centros_dict.items(): matching centers, and the closest
MatchesAnyCode(ciiu, mapping, c) == mapping[c] # {}
Matches(ciiu, mapping, c) == mapping[c] # {} /\ ciiu # NaNum /\ ciiu \in mapping[c]
RECURSIVE ClosestFrom(_, _, _, _, _)
ClosestFrom(i, lat, ciiu, mapping, best) ==
    IF i > Len(CentroNames) THEN best
    ELSE LET c == CentroNames[i]
         IN IF Matches(ciiu, mapping, c) /\ CloserThan(lat, c, best)
              THEN ClosestFrom(i + 1, lat, ciiu, mapping, c)
              ELSE ClosestFrom(i + 1, lat, ciiu, mapping, best)

FindClosestIgnoringIndex(lat, ciiu, mapping, row_index) ==
    ClosestFrom(1, lat, ciiu, mapping, NaStr)
FindClosestCentroWithCiiuMatch(lat, ciiu, mapping, row_index) ==
    LET closest == ClosestFrom(1, lat, ciiu, mapping, NaStr)
    IN IF /\ closest \in {"Manrique", "Medellin"}
          /\ Matches(ciiu, mapping, "Manrique")
          /\ Matches(ciiu, mapping, "Medellin")
         THEN IF row_index % 2 = 0 THEN "Manrique" ELSE "Medellin"
         ELSE closest

AssignControlCentrosResult(data, mapping) ==
    [i \in 1..Len(data) |->
        IF data[i].centro = NaStr
          THEN [data[i] EXCEPT !.centro =
                  FindClosestCentroWithCiiuMatch(data[i].latitude, data[i].ciiu_principal_2023,
                                                 mapping, data[i].name)]
          ELSE data[i]]

\* Series.min(), NaN for an empty series
SetMin(S) == IF S = {} THEN NaNum ELSE CHOOSE x \in S : \A y \in S : x <= y
SetMax(S) == IF S = {} THEN NaNum ELSE CHOOSE x \in S : \A y \in S : x >= y

\* centro_data["yearcohort"].dropna()
YearcohortsOf(data, c) ==
    {data[i].yearcohort : i \in {j \in 1..Len(data) :
        data[j].centro = c /\ data[j].yearcohort # NaNum}}
HighestYearcohort(data, c) == SetMax(YearcohortsOf(data, c))
LowestYearcohort(data, c) == SetMin(YearcohortsOf(data, c))

AssignYearcohortsResult(data) ==
    [i \in 1..Len(data) |->
        IF data[i].yearcohort = NaNum
          THEN [data[i] EXCEPT !.yearcohort =
                  IF data[i].centro = NaStr THEN NaNum ELSE LowestYearcohort(data, data[i].centro)]
          ELSE data[i]]

\* rows of a linked table: participants of a center with or without a
\* cohort, a participant without a center, and non-participants
LinkedShapes ==
    {[latitude |-> 0, ciiu_principal_2023 |-> 10, centro |-> c, yearcohort |-> y, sales2022s |-> 1] :
        c \in Centros, y \in {NaNum, 2023, 2024}}
    \cup {[latitude |-> 4, ciiu_principal_2023 |-> 10, centro |-> NaStr, yearcohort |-> 2024, sales2022s |-> 1]}
    \cup {[latitude |-> l, ciiu_principal_2023 |-> k, centro |-> NaStr, yearcohort |-> NaNum, sales2022s |-> NaNum] :
        l \in {0, 4}, k \in {10, 20}}
    \cup {[latitude |-> NaNum, ciiu_principal_2023 |-> 10, centro |-> NaStr, yearcohort |-> NaNum, sales2022s |-> NaNum]}

\* tables whose k-th row has its own up_id and index label
LinkedTables(maxRows) ==
    {[i \in 1..Len(q) |->
        [name |-> i - 1, up_id |-> ToString(6 + i), latitude |-> q[i].latitude,
         ciiu_principal_2023 |-> q[i].ciiu_principal_2023, centro |-> q[i].centro,
         yearcohort |-> q[i].yearcohort, sales2022s |-> q[i].sales2022s]] :
     q \in SeqsOver(LinkedShapes, maxRows)}

LinkedInit ==
    /\ lkPc = "merged"
    /\ rues_with_coords = <<>>
    /\ zasca_with_coords = <<>>
    /\ data_with_coords \in LinkedTables(MaxLinked)
    /\ centro_ciiu_mapping = <<>>

\* rows of the table assign_control_centros gets
MaxAssign == 4
\* participants of each center, and non-participants at a center's place
\* with an industry code some participant has, or one none has
AssignShapes ==
    {[latitude |-> 0, ciiu_principal_2023 |-> 10, centro |-> c, yearcohort |-> 2023, sales2022s |-> 1] :
        c \in Centros}
    \cup {[latitude |-> l, ciiu_principal_2023 |-> k, centro |-> NaStr, yearcohort |-> NaNum, sales2022s |-> NaNum] :
        l \in {0, 1, 4}, k \in {10, 20}}
AssignTables(maxRows) ==
    {[i \in 1..Len(q) |->
        [name |-> i - 1, up_id |-> ToString(6 + i), latitude |-> q[i].latitude,
         ciiu_principal_2023 |-> q[i].ciiu_principal_2023, centro |-> q[i].centro,
         yearcohort |-> q[i].yearcohort, sales2022s |-> q[i].sales2022s]] :
     q \in SeqsOver(AssignShapes, maxRows)}

AssignInit ==
    /\ lkPc = "merged"
    /\ rues_with_coords = <<>>
    /\ zasca_with_coords = <<>>
    /\ data_with_coords \in AssignTables(MaxAssign)
    /\ centro_ciiu_mapping = <<>>

GetCentroCiiuMapping ==
    /\ LKFrame
    /\ lkPc = "merged"
    /\ centro_ciiu_mapping' = CentroCiiuMapping(data_with_coords)
    /\ lkPc' = "mapped"
    /\ UNCHANGED <<rues_with_coords, zasca_with_coords, data_with_coords>>

AssignControlCentros ==
    /\ LKFrame
    /\ lkPc = "mapped"
    /\ data_with_coords' = AssignControlCentrosResult(data_with_coords, centro_ciiu_mapping)
    /\ lkPc' = "centros"
    /\ UNCHANGED <<rues_with_coords, zasca_with_coords, centro_ciiu_mapping>>

AssignYearcohorts ==
    /\ LKFrame
    /\ lkPc = "centros"
    /\ data_with_coords' = AssignYearcohortsResult(data_with_coords)
    /\ lkPc' = "yearcohorts"
    /\ UNCHANGED <<rues_with_coords, zasca_with_coords, centro_ciiu_mapping>>

NextLinkage ==
    \/ GetCentroCiiuMapping
    \/ AssignControlCentros
    \/ AssignYearcohorts

(***************************************************************************)
(* merge_rues_zasca.py: clean_zasca_nit                                    *)
(***************************************************************************)
\* characters of a raw nit
MaxNitLen == 4

Digits == {"1", "2"}
NitChars == Digits \cup {"-", " "}
\* strings over an alphabet up to a length
Strings(alphabet, n) == UNION {[1..k -> alphabet] : k \in 0..n}

\* the table of known erroneous ids, one entry of it with short ids
BadNit == <<"1", "2">>
GoodNit == <<"2", "1">>

\* Series.fillna(other)
FillFrom(x, other) == IF x.nan THEN other ELSE x
\* str() of a cell
StrOf(x) == IF x.nan THEN <<"n", "a", "n">> ELSE x.s
\* s[:-1]
DropLast(s) == IF s = <<>> THEN <<>> ELSE SubSeq(s, 1, Len(s) - 1)
\* row["numberid_emp1"] if str(row["nit"])[:-1] == str(row["numberid_emp1"]) else row["nit"]
CheckDigitDropped(x, id) == IF DropLast(StrOf(x)) = StrOf(id) THEN id ELSE x
\* Series.replace(dict): a value equal to a key becomes that key's value
Remapped(x) == IF ~x.nan /\ x.s = BadNit THEN Str(GoodNit) ELSE x

\* re.sub(r"([ -])\d", "", s): every separator followed by a digit goes,
\* with that digit, wherever it stands
RECURSIVE RegexSub(_)
RegexSub(s) ==
    IF s = <<>> THEN <<>>
    ELSE IF Len(s) >= 2 /\ s[1] \in {" ", "-"} /\ s[2] \in Digits
      THEN RegexSub(SubSeq(s, 3, Len(s)))
      ELSE <<s[1]>> \o RegexSub(Tail(s))
\* x if pd.isna(x) else re.sub(..., str(x))
SuffixStripped(x) == IF x.nan THEN x ELSE Str(RegexSub(x.s))

NitInit ==
    /\ nitPc = "raw"
    /\ nit \in {NaN} \cup {Str(s) : s \in Strings(NitChars, MaxNitLen)}
    /\ numberid_emp1 \in {NaN} \cup {Str(s) : s \in Strings(Digits, 2) \ {<<>>}}
    /\ nitRemapped = NaN
    /\ nitClean = NaN

NitOff ==
    /\ nitPc = "off"
    /\ nit = NaN
    /\ numberid_emp1 = NaN
    /\ nitRemapped = NaN
    /\ nitClean = NaN

CleanZascaNit ==
    /\ NitFrame
    /\ nitPc = "raw"
    /\ LET filled == FillFrom(nit, numberid_emp1)
           remapped == Remapped(CheckDigitDropped(filled, numberid_emp1))
       IN /\ nitRemapped' = remapped
          /\ nitClean' = SuffixStripped(remapped)
    /\ nitPc' = "cleaned"
    /\ UNCHANGED <<nit, numberid_emp1>>

(***************************************************************************)
(* llm.py: process_address_batch, make_llm_request under                   *)
(* with_exponential_backoff, clean_json_response, llm.RateLimiter, in time *)
(***************************************************************************)
(* merge_rues_zasca: prepare_coordinates_data and pivot_rues_data          *)
(***************************************************************************)
\* rows of rues_total
MaxPanel == 3
\* rows of all_coords
MaxCoords == 2

PanelNits == {"7", "8"}
SourceYears == {2023, 2024}
Cities == {"Bogota", "Cali"}
\* distinct (gmaps_address, latitude, longitude) triples; NaStr is the triple
\* of an address the geocoder could not resolve
Places == {"P", "Q", NaStr}
PanelRows == [nit : PanelNits, source_year : SourceYears, city : Cities]
CoordRecords == [nit : PanelNits, place : Places]

\* the rows one left row gives in an inner merge: its matches, in their order
RECURSIVE MatchesOf(_, _)
MatchesOf(row, coords) ==
    IF coords = <<>> THEN <<>>
    ELSE (IF Head(coords).nit = row.nit
            THEN <<[nit |-> row.nit, source_year |-> row.source_year,
                    city |-> row.city, place |-> Head(coords).place]>>
            ELSE <<>>) \o MatchesOf(row, Tail(coords))
\* rues_total.merge(all_coords, on="nit", how="inner"): left order kept
RECURSIVE InnerMerge(_, _)
InnerMerge(total, coords) ==
    IF total = <<>> THEN <<>>
    ELSE MatchesOf(Head(total), coords) \o InnerMerge(Tail(total), coords)

\* drop_duplicates(subset=["nit", "source_year"]): the first row of each pair
RECURSIVE FirstPerNitYear(_, _)
FirstPerNitYear(rows, seen) ==
    IF rows = <<>> THEN <<>>
    ELSE LET k == <<Head(rows).nit, Head(rows).source_year>>
         IN IF k \in seen THEN FirstPerNitYear(Tail(rows), seen)
            ELSE <<Head(rows)>> \o FirstPerNitYear(Tail(rows), seen \cup {k})

Range(q) == {q[i] : i \in 1..Len(q)}
\* pivot_table groups by the index columns; groupby drops the rows in which
\* one of them is null
Grouped(rows) == {r \in Range(rows) : r.place # NaStr}
\* the years that become columns
PivotColumns(rows) == {r.source_year : r \in Grouped(rows)}
\* the cell of one group and year: the city of its row, null without a row
CityCell(rows, nit_, place, year) ==
    LET hit == {r \in Grouped(rows) :
                   r.nit = nit_ /\ r.place = place /\ r.source_year = year}
    IN IF hit = {} THEN NaStr ELSE (CHOOSE r \in hit : TRUE).city
\* pivot_table(index=[nit, gmaps_address, latitude, longitude],
\*             columns="source_year") and reset_index
PivotTable(rows) ==
    {[nit |-> r.nit, place |-> r.place,
      city_2023 |-> CityCell(rows, r.nit, r.place, 2023),
      city_2024 |-> CityCell(rows, r.nit, r.place, 2024)] : r \in Grouped(rows)}
\* city_2023.fillna(city_2024), then both year columns are dropped
CollapseCity(row) ==
    [nit |-> row.nit, place |-> row.place,
     city |-> IF row.city_2023 # NaStr THEN row.city_2023 ELSE row.city_2024]

PVInit ==
    /\ pvPc = "loaded"
    /\ rues_total \in SeqsOver(PanelRows, MaxPanel)
    /\ all_coords \in SeqsOver(CoordRecords, MaxCoords)
    /\ rues_joined = <<>>
    /\ rues_pivoted = {}

PVOff ==
    /\ pvPc = "off"
    /\ rues_total = <<>>
    /\ all_coords = <<>>
    /\ rues_joined = <<>>
    /\ rues_pivoted = {}

\* prepare_coordinates_data: the registry panel joined with the coordinates
PrepareCoordinatesData ==
    /\ PVFrame
    /\ pvPc = "loaded"
    /\ rues_joined' = InnerMerge(rues_total, all_coords)
    /\ pvPc' = "prepared"
    /\ UNCHANGED <<rues_total, all_coords, rues_pivoted>>

\* pivot_rues_data; rues_with_coords["city_2023"] and ["city_2024"] raise
\* KeyError for a year that is no column
PivotRuesData ==
    /\ PVFrame
    /\ pvPc = "prepared"
    /\ LET kept == FirstPerNitYear(rues_joined, {}) IN
         IF SourceYears \subseteq PivotColumns(kept)
           THEN /\ rues_pivoted' = {CollapseCity(row) : row \in PivotTable(kept)}
                /\ pvPc' = "pivoted"
           ELSE /\ pvPc' = "raised"
                /\ UNCHANGED rues_pivoted
    /\ UNCHANGED <<rues_total, all_coords, rues_joined>>

(***************************************************************************)
\* batch tasks gathered by normalise_addresses_using_llm
NumLlmBatches == 1

\* tenths of a second in a second
TenthsPerSecond == 10
\* with_exponential_backoff(max_retries=5, initial_delay=1.0), base 2.0, jitter 0.1
LlmMaxRetries == 5
InitialDelay == 1
ExponentialBase == 2
JitterTenths == 1

LlmBatches == 1..NumLlmBatches
\* 1 / calls_per_second for calls_per_second = 0.25 (the default) and 2
LlmIntervals == {4 * TenthsPerSecond, TenthsPerSecond \div 2}
\* random.uniform(-jitter, jitter): its ends and its middle
JitterDraws == {-1, 0, 1}
\* delay * (1 + u * jitter)
JitteredWhole(delay, u) == delay + u * delay
Jittered(delay, u) == delay + (u * JitterTenths * delay) \div 10

\* what the provider can answer: text as a list of tokens
\* the code-fence markers (three backquotes, with and without "json")
Fence == "<fence>"
FenceJson == "<fence>json"
ReplyTexts ==
    {<<"{}">>, <<FenceJson, "{}", Fence>>, <<" ", "{}", " ">>, <<Fence, "[]", Fence>>,
     <<"x">>, <<FenceJson, "x", Fence>>, <<"{}", "x">>, <<>>}
\* response_text.replace(FenceJson, "").replace(Fence, "")
RECURSIVE WithoutFences(_)
WithoutFences(text) ==
    IF text = <<>> THEN <<>>
    ELSE IF Head(text) \in {Fence, FenceJson} THEN WithoutFences(Tail(text))
         ELSE <<Head(text)>> \o WithoutFences(Tail(text))
\* json.loads accepts the text
ParsesAsJson(text) == Len(text) = 1 /\ text[1] \in {"{}", "[]"}
\* clean_json_response: the cleaned text, or the JSONDecodeError
AcceptsAnyText(text) == [ok |-> TRUE, text |-> text]
CleanJsonResponse(text) ==
    LET cleaned == Strip(WithoutFences(text))
    IN IF ParsesAsJson(cleaned) THEN [ok |-> TRUE, text |-> cleaned]
       ELSE [ok |-> FALSE, text |-> cleaned]

\* make_llm_request has returned nothing (yet)
NoText == <<"<none>">>
LlmNoResult == [status |-> "none", response |-> <<>>, error |-> "", processed_count |-> 0]
LlmSuccess(text) == [status |-> "success", response |-> text, error |-> "", processed_count |-> 1]
LlmError(e) == [status |-> "error", response |-> <<>>, error |-> e, processed_count |-> 0]

LlmInit ==
    /\ llmInterval \in LlmIntervals
    /\ sinceLast \in {0, llmInterval}
    /\ llmLock = 0
    /\ llmActive = 0
    /\ lpc = [b \in LlmBatches |-> "pending"]
    /\ attempt = [b \in LlmBatches |-> 0]
    /\ ldelay = [b \in LlmBatches |-> InitialDelay * TenthsPerSecond]
    /\ lwake = [b \in LlmBatches |-> NoTime]
    /\ lresult = [b \in LlmBatches |-> LlmNoResult]
    /\ lreply = [b \in LlmBatches |-> NoText]
    /\ sinceCall = NoTime
    /\ callGap = NoTime

LlmOff ==
    /\ llmInterval = 4 * TenthsPerSecond
    /\ sinceLast = 0
    /\ llmLock = 0
    /\ llmActive = 0
    /\ lpc = [b \in LlmBatches |-> "off"]
    /\ attempt = [b \in LlmBatches |-> 0]
    /\ ldelay = [b \in LlmBatches |-> InitialDelay * TenthsPerSecond]
    /\ lwake = [b \in LlmBatches |-> NoTime]
    /\ lresult = [b \in LlmBatches |-> LlmNoResult]
    /\ lreply = [b \in LlmBatches |-> NoText]
    /\ sinceCall = NoTime
    /\ callGap = NoTime

\* func(*args) is entered: a provider call starts now
StartCall(b) ==
    /\ lpc' = [lpc EXCEPT ![b] = "calling"]
    /\ attempt' = [attempt EXCEPT ![b] = @ + 1]
    /\ lwake' = [lwake EXCEPT ![b] = NoTime]
    /\ callGap' = sinceCall
    /\ sinceCall' = 0

\* rate_limiter.acquire(): the lock is free; the task returns at once and
\* calls the provider, or sleeps inside the lock
LlmAcquire(b) ==
    /\ LlmFrame
    /\ lpc[b] = "pending"
    /\ llmLock = 0
    /\ llmActive' = llmActive + 1
    /\ IF sinceLast < llmInterval
         THEN /\ llmLock' = b
              /\ lpc' = [lpc EXCEPT ![b] = "throttled"]
              /\ lwake' = [lwake EXCEPT ![b] = llmInterval - sinceLast]
              /\ UNCHANGED <<sinceLast, attempt, sinceCall, callGap>>
         ELSE /\ sinceLast' = 0
              /\ StartCall(b)
              /\ UNCHANGED llmLock
    /\ UNCHANGED <<llmInterval, ldelay, lresult, lreply>>

\* the sleep inside acquire() is over: stamp, leave the lock, call
LlmThrottleWake(b) ==
    /\ LlmFrame
    /\ lpc[b] = "throttled"
    /\ lwake[b] = 0
    /\ sinceLast' = 0
    /\ llmLock' = 0
    /\ StartCall(b)
    /\ UNCHANGED <<llmInterval, llmActive, ldelay, lresult, lreply>>

\* the provider call raised: sleep and go round the loop, or raise the last
\* exception into process_address_batch
ProviderRaises(b, u) ==
    /\ LlmFrame
    /\ lpc[b] = "calling"
    /\ IF attempt[b] - 1 < LlmMaxRetries - 1
         THEN /\ lpc' = [lpc EXCEPT ![b] = "backoff"]
              /\ lwake' = [lwake EXCEPT ![b] = Jittered(ldelay[b], u)]
              /\ ldelay' = [ldelay EXCEPT ![b] = @ * ExponentialBase]
              /\ UNCHANGED lresult
         ELSE /\ lpc' = [lpc EXCEPT ![b] = "releasing"]
              /\ lresult' = [lresult EXCEPT ![b] = LlmError("provider")]
              /\ UNCHANGED <<lwake, ldelay>>
    /\ UNCHANGED <<llmInterval, sinceLast, llmLock, llmActive, attempt, lreply,
                   sinceCall, callGap>>

\* the wrapper calls func again as soon as its sleep is over
RetryStartsAtWake(b) == lwake[b] = 0

\* asyncio.sleep(jitter_delay) is over: the next attempt
BackoffWake(b) ==
    /\ LlmFrame
    /\ lpc[b] = "backoff"
    /\ RetryStartsAtWake(b)
    /\ StartCall(b)
    /\ UNCHANGED <<llmInterval, sinceLast, llmLock, llmActive, ldelay, lresult, lreply>>

\* the provider call returned text: clean_json_response and the result
ProviderReturns(b, text) ==
    /\ LlmFrame
    /\ lpc[b] = "calling"
    /\ LET cleaned == CleanJsonResponse(text)
       IN lresult' = [lresult EXCEPT ![b] =
                        IF cleaned.ok THEN LlmSuccess(cleaned.text) ELSE LlmError("JSONDecodeError")]
    /\ lreply' = [lreply EXCEPT ![b] = text]
    /\ lpc' = [lpc EXCEPT ![b] = "releasing"]
    /\ UNCHANGED <<llmInterval, sinceLast, llmLock, llmActive, attempt, ldelay,
                   lwake, sinceCall, callGap>>

\* finally: rate_limiter.release(), once the lock is free
LlmRelease(b) ==
    /\ LlmFrame
    /\ lpc[b] = "releasing"
    /\ llmLock = 0
    /\ llmActive' = llmActive - 1
    /\ lpc' = [lpc EXCEPT ![b] = "finished"]
    /\ UNCHANGED <<llmInterval, sinceLast, llmLock, attempt, ldelay, lwake,
                   lresult, lreply, sinceCall, callGap>>

\* the event loop has nothing to run: time passes until the next sleep ends
Sleepers == {b \in LlmBatches : lpc[b] \in {"throttled", "backoff"}}
Capped(t) == IF t > llmInterval THEN llmInterval ELSE t
LlmAdvance ==
    /\ LlmFrame
    /\ Sleepers # {}
    /\ \A b \in Sleepers : lwake[b] > 0
    /\ LET d == SetMin({lwake[b] : b \in Sleepers})
       IN /\ lwake' = [b \in LlmBatches |-> IF b \in Sleepers THEN lwake[b] - d ELSE lwake[b]]
          /\ sinceLast' = Capped(sinceLast + d)
          /\ sinceCall' = IF sinceCall = NoTime THEN NoTime ELSE Capped(sinceCall + d)
    /\ UNCHANGED <<llmInterval, llmLock, llmActive, lpc, attempt, ldelay, lresult,
                   lreply, callGap>>

NextLlm ==
    \/ \E b \in LlmBatches : LlmAcquire(b)
    \/ \E b \in LlmBatches : LlmThrottleWake(b)
    \/ \E b \in LlmBatches : \E u \in JitterDraws : ProviderRaises(b, u)
    \/ \E b \in LlmBatches : BackoffWake(b)
    \/ \E b \in LlmBatches : \E text \in ReplyTexts : ProviderReturns(b, text)
    \/ \E b \in LlmBatches : LlmRelease(b)
    \/ LlmAdvance

(***************************************************************************)
(* normalise_addresses_using_llm: N batch tasks, one limiter,             *)
(* asyncio.gather                                                          *)
(***************************************************************************)
\* batch tasks of one run
NumGather == 2
GatherTasks == 1..NumGather

\* the lock once the holder has left "async with self._lock"
LockKept(b) == b
LockLeft(b) == 0

CountOf(status) == Cardinality({b \in GatherTasks : tResults[b] = <<status>>})

TKInit ==
    /\ tkPc = "gather"
    /\ tkLock = 0
    /\ tkActive = 0
    /\ tpc = [b \in GatherTasks |-> "pending"]
    /\ tAttempt = [b \in GatherTasks |-> 0]
    /\ tResults = [b \in GatherTasks |-> <<>>]
    /\ tkSummary = <<>>

TKOff ==
    /\ tkPc = "off"
    /\ tkLock = 0
    /\ tkActive = 0
    /\ tpc = [b \in GatherTasks |-> "pending"]
    /\ tAttempt = [b \in GatherTasks |-> 0]
    /\ tResults = [b \in GatherTasks |-> <<>>]
    /\ tkSummary = <<>>

\* acquire(): the task enters the lock and counts itself; it may sleep there
TaskAcquire(b) ==
    /\ TKFrame
    /\ tkPc = "gather"
    /\ tpc[b] = "pending"
    /\ tkLock = 0
    /\ tkLock' = b
    /\ tkActive' = tkActive + 1
    /\ tpc' = [tpc EXCEPT ![b] = "acquiring"]
    /\ UNCHANGED <<tkPc, tAttempt, tResults, tkSummary>>

\* acquire() returns: the sleep, if any, is over, the lock is left, and the
\* first provider call starts
TaskAcquired(b) ==
    /\ TKFrame
    /\ tpc[b] = "acquiring"
    /\ tkLock' = LockLeft(b)
    /\ tpc' = [tpc EXCEPT ![b] = "calling"]
    /\ tAttempt' = [tAttempt EXCEPT ![b] = 1]
    /\ UNCHANGED <<tkPc, tkActive, tResults, tkSummary>>

\* the provider call raises: backoff, or after the last attempt the raise
\* that process_address_batch turns into an error result
ProviderCallRaises(b) ==
    /\ TKFrame
    /\ tpc[b] = "calling"
    /\ IF tAttempt[b] - 1 < LlmMaxRetries - 1
         THEN /\ tpc' = [tpc EXCEPT ![b] = "backoff"]
              /\ UNCHANGED tResults
         ELSE /\ tpc' = [tpc EXCEPT ![b] = "releasing"]
              /\ tResults' = [tResults EXCEPT ![b] = Append(@, "error")]
    /\ UNCHANGED <<tkPc, tkLock, tkActive, tAttempt, tkSummary>>

\* the sleep of the wrapper is over: the next attempt
TaskBackoffOver(b) ==
    /\ TKFrame
    /\ tpc[b] = "backoff"
    /\ tpc' = [tpc EXCEPT ![b] = "calling"]
    /\ tAttempt' = [tAttempt EXCEPT ![b] = @ + 1]
    /\ UNCHANGED <<tkPc, tkLock, tkActive, tResults, tkSummary>>

\* the provider call returns; ok says whether clean_json_response accepts it
ProviderCallReturns(b, ok) ==
    /\ TKFrame
    /\ tpc[b] = "calling"
    /\ tpc' = [tpc EXCEPT ![b] = "releasing"]
    /\ tResults' = [tResults EXCEPT ![b] = Append(@, IF ok THEN "success" ELSE "error")]
    /\ UNCHANGED <<tkPc, tkLock, tkActive, tAttempt, tkSummary>>

\* finally: release() takes the lock, counts the task out, and the task ends
TaskRelease(b) ==
    /\ TKFrame
    /\ tpc[b] = "releasing"
    /\ tkLock = 0
    /\ tkActive' = tkActive - 1
    /\ tpc' = [tpc EXCEPT ![b] = "finished"]
    /\ UNCHANGED <<tkPc, tkLock, tAttempt, tResults, tkSummary>>

\* asyncio.gather returns, the results are saved and counted, the summary
\* is returned
GatherAndSave ==
    /\ TKFrame
    /\ tkPc = "gather"
    /\ \A b \in GatherTasks : tpc[b] = "finished"
    /\ tkSummary' = [total_batches |-> NumGather,
                     successful_batches |-> CountOf("success"),
                     failed_batches |-> NumGather - CountOf("success")]
    /\ tkPc' = "returned"
    /\ UNCHANGED <<tkLock, tkActive, tpc, tAttempt, tResults>>

NextTasks ==
    \/ \E b \in GatherTasks : TaskAcquire(b)
    \/ \E b \in GatherTasks : TaskAcquired(b)
    \/ \E b \in GatherTasks : ProviderCallRaises(b)
    \/ \E b \in GatherTasks : TaskBackoffOver(b)
    \/ \E b \in GatherTasks, ok \in BOOLEAN : ProviderCallReturns(b, ok)
    \/ \E b \in GatherTasks : TaskRelease(b)
    \/ GatherAndSave

(***************************************************************************)
(* Specifications                                                          *)
(***************************************************************************)
InitRateLimiter == RLInit /\ CBOff /\ GeoOff /\ APOff /\ LKOff /\ NitOff /\ LlmOff /\ PVOff /\ TKOff
SpecRateLimiter == InitRateLimiter /\ [][NextRateLimiter]_vars

InitBatches == CBInit /\ RLOff /\ GeoOff /\ APOff /\ LKOff /\ NitOff /\ LlmOff /\ PVOff /\ TKOff
NextBatches == CallCreateAddressBatches
SpecBatches == InitBatches /\ [][NextBatches]_vars

InitGeocode == GeoInit /\ RLOff /\ CBOff /\ APOff /\ LKOff /\ NitOff /\ LlmOff /\ PVOff /\ TKOff
SpecGeocode == InitGeocode /\ [][NextGeocode]_vars

InitAddress == APInit /\ RLOff /\ CBOff /\ GeoOff /\ LKOff /\ NitOff /\ LlmOff /\ PVOff /\ TKOff
SpecAddress == InitAddress /\ [][NextAddress]_vars

\* runs repeated on one output directory
InitRerun ==
    /\ InitAddress
    /\ apHasKey
    /\ dataset = "zasca"
    /\ apDf.hasFullAddress
    /\ apDf.hasIdCol
    /\ Len(apDf.rows) <= RerunRows
NextRerun == NextAddress \/ RunAgain
SpecRerun == InitRerun /\ [][NextRerun]_vars

InitMerge == LKInit /\ RLOff /\ CBOff /\ GeoOff /\ APOff /\ NitOff /\ LlmOff /\ PVOff /\ TKOff
NextMerge == MergeDatasets
SpecMerge == InitMerge /\ [][NextMerge]_vars

InitLinkage == LinkedInit /\ RLOff /\ CBOff /\ GeoOff /\ APOff /\ NitOff /\ LlmOff /\ PVOff /\ TKOff
SpecLinkage == InitLinkage /\ [][NextLinkage]_vars

InitAssign == AssignInit /\ RLOff /\ CBOff /\ GeoOff /\ APOff /\ NitOff /\ LlmOff /\ PVOff /\ TKOff
SpecAssign == InitAssign /\ [][NextLinkage]_vars

InitNit == NitInit /\ RLOff /\ CBOff /\ GeoOff /\ APOff /\ LKOff /\ LlmOff /\ PVOff /\ TKOff
NextNit == CleanZascaNit
SpecNit == InitNit /\ [][NextNit]_vars

InitCompile == CompileInit /\ RLOff /\ CBOff /\ GeoOff /\ LKOff /\ NitOff /\ LlmOff /\ PVOff /\ TKOff
NextCompile == CompileResults
SpecCompile == InitCompile /\ [][NextCompile]_vars

InitPivot == PVInit /\ RLOff /\ CBOff /\ GeoOff /\ APOff /\ LKOff /\ NitOff /\ LlmOff /\ TKOff
NextPivot == PrepareCoordinatesData \/ PivotRuesData
SpecPivot == InitPivot /\ [][NextPivot]_vars

InitTasks == TKInit /\ RLOff /\ CBOff /\ GeoOff /\ APOff /\ LKOff /\ NitOff /\ LlmOff /\ PVOff
\* every sleep ends and every provider call returns or raises; asyncio.Lock
\* wakes its waiters in the order they came, so a task that keeps asking for
\* the lock gets it
FairTasks ==
    /\ \A b \in GatherTasks :
          /\ SF_vars(TaskAcquire(b))
          /\ WF_vars(TaskAcquired(b))
          /\ WF_vars(ProviderCallRaises(b) \/ \E ok \in BOOLEAN : ProviderCallReturns(b, ok))
          /\ WF_vars(TaskBackoffOver(b))
          /\ SF_vars(TaskRelease(b))
    /\ WF_vars(GatherAndSave)
SpecTasks == InitTasks /\ [][NextTasks]_vars /\ FairTasks

InitLlm == LlmInit /\ RLOff /\ CBOff /\ GeoOff /\ APOff /\ LKOff /\ NitOff /\ PVOff /\ TKOff
SpecLlm == InitLlm /\ [][NextLlm]_vars

(***************************************************************************)
(* C1: on one RateLimiter built with calls_per_second = r, any two         *)
(* consecutive returns of acquire() are at least 1/r apart on the          *)
(* event-loop clock, under every interleaving of the tasks.                *)
(***************************************************************************)
C1_Spacing ==
    (rlState = "built" /\ prevReturn # NoTime)
        => lastReturn - prevReturn >= Interval(calls_per_second)

\* two acquire() calls have returned on a limiter with a positive rate, the
\* second one after sleeping inside the lock
C1_Witness ==
    /\ rlState = "built"
    /\ calls_per_second > 0
    /\ prevReturn # NoTime
    /\ lastReturn - prevReturn = Interval(calls_per_second)
    /\ \E t \in Tasks : wake[t] = lastReturn

(***************************************************************************)
(* C2: a rate limiter never exists with a non-positive rate: construction  *)
(* with calls_per_second <= 0 raises, for the shared class and for the one *)
(* normalise_addresses_using_llm builds, and no acquire() is ever served.  *)
(***************************************************************************)
C2_NonPositiveRateRejected ==
    (calls_per_second <= 0 /\ rlState # "unbuilt")
        => (rlState = "raised" /\ lastReturn = NoTime)

(***************************************************************************)
(* C3: create_address_batches partitions the input: blank addresses are in *)
(* no batch, every id with a non-blank address is in exactly one batch,    *)
(* every batch holds 1..batch_size ids and all but the last hold           *)
(* batch_size.  The input table has the identifier column.                 *)
(***************************************************************************)
BatchesWith(id) == {b \in 1..Len(cbBatches) : DictHas(cbBatches[b], id)}
IsBlank(c) == c.nan \/ \A i \in 1..Len(c.s) : IsSpace(c.s[i])

C3_Partition ==
    (cbPc = "returned" /\ cbHasIdCol) =>
        /\ \A i \in 1..Len(cbDf) :
              /\ IsBlank(cbDf[i].full_address) => BatchesWith(cbDf[i].id) = {}
              /\ ~IsBlank(cbDf[i].full_address) =>
                    /\ Cardinality(BatchesWith(cbDf[i].id)) = 1
                    /\ \A b \in BatchesWith(cbDf[i].id) :
                          DictGet(cbBatches[b], cbDf[i].id) = cbDf[i].full_address.s
        /\ \A b \in 1..Len(cbBatches) :
              /\ Len(cbBatches[b]) \in 1..batch_size
              /\ b < Len(cbBatches) => Len(cbBatches[b]) = batch_size
              /\ DictKeys(cbBatches[b]) \subseteq {cbDf[i].id : i \in 1..Len(cbDf)}
              /\ Cardinality(DictKeys(cbBatches[b])) = Len(cbBatches[b])

\* a table with a blank row, split into a full batch and a shorter last one
C3_Witness ==
    /\ cbPc = "returned"
    /\ cbHasIdCol
    /\ \E i \in 1..Len(cbDf) : IsBlank(cbDf[i].full_address)
    /\ Len(cbBatches) >= 2
    /\ Len(cbBatches[Len(cbBatches)]) < batch_size

(***************************************************************************)
(* C4: the compiled table has exactly one row for every input id that      *)
(* belongs to a batch with a success file and whose entry in that batch's  *)
(* reply is an object, and no row for any other id.                        *)
(***************************************************************************)
NumRows(x) == Cardinality({k \in 1..Len(records) : records[k].id = x})
HasObjectEntry(f, x) ==
    /\ x \in DictKeys(f.input_addresses)
    /\ f.response.kind = "dict"
    /\ DictHas(f.response.body, x)
    /\ DictGet(f.response.body, x).isdict
KnownKeys == {JsonKey(i) : i \in 1..(ApMaxRows + 1)} \cup {ForeignKey}

C4_OneRowPerInputId ==
    (apPc = "returned" /\ "compile" \in apDone) =>
        \A x \in KnownKeys :
            NumRows(x) = IF \E f \in SuccessFiles(dirFiles) : HasObjectEntry(f, x) THEN 1 ELSE 0

(***************************************************************************)
(* C5: in every row of the compiled table formatted_address, country, area *)
(* and city are all null or all non-null.                                  *)
(***************************************************************************)
C5_AllOrNothing ==
    \A k \in 1..Len(records) :
        LET nulls == {records[k].formatted_address = None, records[k].country = None,
                      records[k].area = None, records[k].city = None}
        IN Cardinality(nulls) = 1

(***************************************************************************)
(* C6: GoogleGeocoder.geocode returns (null, null) whenever one of the four *)
(* components is missing or the provider status is not OK, and otherwise a *)
(* formatted address with a (lat, lon) pair; every row of the coordinates  *)
(* table has latitude and longitude both null or both present.             *)
(***************************************************************************)
HasStatus(kind) == StatusOf(kind) # None
IsLocated(r) == r.gmaps_address \notin {None, "raised"} /\ r.coords # None /\ Len(r.coords) = 2
RowsPaired == \A row \in coordRows : (row.latitude = None) <=> (row.longitude = None)

C7_RetryUntilExhausted ==
    \A a \in AddrIds :
        (gpc[a] = "done" /\ lastKind[a] \in {"ClientError", "KeyError", "TimeoutError"}) =>
            /\ taskRes[a] = NullPair
            /\ attempts[a] = MaxRetries + 1
            /\ slept[a] = [k \in 1..MaxRetries |-> Backoff(k)]

(***************************************************************************)
(* C8: process_addresses raises an error whenever the table has no         *)
(* full_address column after the dataset-specific adaptation, and then no  *)
(* batch is submitted to the provider and no batch file is written.        *)
(***************************************************************************)
C8_MissingColumnRaises ==
    ("adapt" \in apDone /\ ~apDf.hasFullAddress) =>
        /\ apPc = "raised"
        /\ apRet = "ValueError"
        /\ batches = <<>>
        /\ submitted = 0
        /\ writes = 0
        /\ dirFiles = {}

\* a ZASCA table with rows and no full_address column was handed in
C8_Witness ==
    /\ apPc = "raised"
    /\ "adapt" \in apDone
    /\ dataset = "zasca"
    /\ ~apDf.hasFullAddress
    /\ apDf.hasIdCol
    /\ Len(apDf.rows) = ApMaxRows

(***************************************************************************)
(* C9: without the provider credential process_addresses returns null      *)
(* before it filters, adapts, batches, submits or writes anything.         *)
(***************************************************************************)
C9_NoCredentialNoWork ==
    (~apHasKey /\ apPc # "start") =>
        /\ apPc = "returned"
        /\ apRet = "None"
        /\ apDone = {}
        /\ batches = <<>>
        /\ submitted = 0
        /\ writes = 0
        /\ dirFiles = {}
        /\ records = <<>>

\* the call was made for a RUES table with rows and a filter, without the key
C9_Witness ==
    /\ ~apHasKey
    /\ apPc = "returned"
    /\ dataset = "rues"
    /\ apFilter
    /\ Len(apDf.rows) = ApMaxRows

(***************************************************************************)
(* C10: the result of every batch that has finished is in the output       *)
(* directory, under its batch id and status, from the moment the batch     *)
(* finished, so that it is there when the run is aborted later.            *)
(***************************************************************************)
C10_FinishedBatchPersisted ==
    apPc = "aborted" =>
        \A i \in 1..Len(batches) : bpc[i] = "finished" => bres[i] \in dirFiles

(***************************************************************************)
(* C11: over any sequence of runs of normalise_addresses_using_llm on one  *)
(* output directory a batch result file, once written, is never           *)
(* overwritten: a file of that name keeps the content it was first        *)
(* written with.                                                          *)
(***************************************************************************)
C11_FilesNeverOverwritten ==
    [][\A f \in dirFiles :
          (\E g \in dirFiles' : FileName(g) = FileName(f)) => f \in dirFiles']_vars

(***************************************************************************)
(* C12: after merge_datasets the linked table has exactly one row per      *)
(* distinct up_id, and no row has up_id "0" or "1", whatever the two input *)
(* tables are, with duplicate tax ids on either side included.             *)
(***************************************************************************)
InputNits ==
    {rues_with_coords[i].nit : i \in 1..Len(rues_with_coords)}
        \cup {zasca_with_coords[i].nit : i \in 1..Len(zasca_with_coords)}

C12_OneRowPerUpId ==
    lkPc = "merged" =>
        /\ \A i, j \in 1..Len(data_with_coords) :
              data_with_coords[i].up_id = data_with_coords[j].up_id => i = j
        /\ \A i \in 1..Len(data_with_coords) : data_with_coords[i].up_id \notin {"0", "1"}
        /\ {data_with_coords[i].up_id : i \in 1..Len(data_with_coords)} = InputNits \ {"0", "1"}

\* both tables repeat a tax id they share, and a placeholder id came in
C12_Witness ==
    /\ lkPc = "merged"
    /\ Len(rues_with_coords) = MaxRues
    /\ Len(zasca_with_coords) = MaxZasca
    /\ \A i \in 1..MaxRues : rues_with_coords[i].nit = "7"
    /\ zasca_with_coords[1].nit = "7"
    /\ zasca_with_coords[MaxZasca].nit = "0"
    /\ Len(data_with_coords) = 1

(***************************************************************************)
(* C13: after assign_control_centros and assign_yearcohorts every row of   *)
(* the linked table has a centro and a yearcohort, non-participants with   *)
(* missing coordinates or with an industry code in no center's top list    *)
(* and centers without a participant cohort included.                      *)
(***************************************************************************)
C13_CentroAndYearcohortPopulated ==
    lkPc = "yearcohorts" =>
        \A i \in 1..Len(data_with_coords) :
            /\ data_with_coords[i].centro # NaStr
            /\ data_with_coords[i].yearcohort # NaNum

(***************************************************************************)
(* C16: assign_yearcohorts gives every row without a cohort of its own     *)
(* that has a center the lowest yearcohort among that center's             *)
(* participants, and leaves the yearcohort of every other row as it was.   *)
(***************************************************************************)
ParticipantCohorts(data, c) ==
    {data[j].yearcohort : j \in {k \in 1..Len(data) :
        IsParticipant(data[k]) /\ data[k].centro = c /\ data[k].yearcohort # NaNum}}

C16_ControlsGetLowestCohort ==
    [][(lkPc = "centros" /\ lkPc' = "yearcohorts") =>
         /\ Len(data_with_coords') = Len(data_with_coords)
         /\ \A i \in 1..Len(data_with_coords) :
              LET old == data_with_coords[i]
                  cohorts == ParticipantCohorts(data_with_coords, old.centro)
              IN IF old.yearcohort # NaNum
                   THEN data_with_coords'[i].yearcohort = old.yearcohort
                   ELSE (old.centro # NaStr /\ cohorts # {}) =>
                          /\ data_with_coords'[i].yearcohort \in cohorts
                          /\ \A y \in cohorts : data_with_coords'[i].yearcohort <= y]_vars

\* a non-participant got 2023 from a center whose participants entered in
\* 2024 and 2023
C16_Witness ==
    /\ lkPc = "yearcohorts"
    /\ Len(data_with_coords) = 3
    /\ data_with_coords[1].sales2022s # NaNum /\ data_with_coords[1].yearcohort = 2024
    /\ data_with_coords[2].sales2022s # NaNum /\ data_with_coords[2].yearcohort = 2023
    /\ data_with_coords[3].sales2022s = NaNum /\ data_with_coords[3].yearcohort = 2023
    /\ \A i \in 1..3 : data_with_coords[i].centro = "Suba"

(***************************************************************************)
(* C14: after clean_zasca_nit no join key is a key of the table of known   *)
(* erroneous ids: a tax id that denotes an erroneous id in any of the      *)
(* forms the other steps handle (filled from the alternate id, with a      *)
(* check digit, with a "-digit" or " digit" suffix) comes out remapped.    *)
(***************************************************************************)
C14_NoErroneousKeyLeft ==
    nitPc = "cleaned" => (nitClean.nan \/ nitClean.s # BadNit)

(***************************************************************************)
(* C15: the suffix step of clean_zasca_nit removes only a trailing         *)
(* "-digit" or " digit": X-d and "X d" become X, and an id without such    *)
(* an ending is returned as it is.                                         *)
(***************************************************************************)
HasTrailingSuffix(s) ==
    Len(s) >= 2 /\ s[Len(s) - 1] \in {" ", "-"} /\ s[Len(s)] \in Digits
TrailingSuffixRemoved(s) == IF HasTrailingSuffix(s) THEN SubSeq(s, 1, Len(s) - 2) ELSE s

C15_OnlyTrailingSuffixRemoved ==
    (nitPc = "cleaned" /\ ~nitRemapped.nan) =>
        nitClean = Str(TrailingSuffixRemoved(nitRemapped.s))

(***************************************************************************)
(* C17: every provider call made during normalise_addresses_using_llm,     *)
(* first attempts and retries alike, is admitted by the rate limiter: any  *)
(* two provider calls start at least 1/calls_per_second apart.             *)
(***************************************************************************)
C17_ProviderCallsSpaced ==
    callGap = NoTime \/ callGap >= llmInterval

(***************************************************************************)
(* C18: for each batch make_llm_request calls the provider at most 5       *)
(* times; a successful reply ends it without further calls; it sleeps only *)
(* between attempts, nominally 1, 2, 4, 8 seconds, each within 10%; after  *)
(* the 5th failure in a row it raises, with no sleep after it, and the     *)
(* batch is recorded with status error.                                    *)
(***************************************************************************)
NominalDelays == <<1, 2, 4, 8>>
WithinTenPercent(t, seconds) ==
    /\ 10 * t >= 9 * seconds * TenthsPerSecond
    /\ 10 * t <= 11 * seconds * TenthsPerSecond
Over(b) == lpc[b] \in {"releasing", "finished"}

C18_AtMostFiveAttempts ==
    /\ [](\A b \in LlmBatches : attempt[b] <= 5)
    /\ [][\A b \in LlmBatches :
            /\ (lpc[b] # "backoff" /\ lpc'[b] = "backoff") =>
                  /\ lpc[b] = "calling"
                  /\ attempt[b] \in 1..4
                  /\ WithinTenPercent(lwake'[b], NominalDelays[attempt[b]])
            /\ (lpc[b] = "backoff" /\ lpc'[b] # "backoff") =>
                  (lpc'[b] = "calling" /\ attempt'[b] = attempt[b] + 1)
            /\ (lpc[b] = "calling" /\ lpc'[b] = "releasing" /\ lreply'[b] = NoText) =>
                  (attempt[b] = 5 /\ lresult'[b].status = "error")
            /\ (lpc[b] = "calling" /\ lreply'[b] # NoText) => lpc'[b] = "releasing"
            /\ Over(b) => (Over(b)' /\ attempt'[b] = attempt[b])]_vars

\* a batch failed five times and was recorded as an error
C18_Witness ==
    \E b \in LlmBatches :
        /\ lpc[b] = "finished"
        /\ attempt[b] = 5
        /\ lreply[b] = NoText
        /\ lresult[b].status = "error"

(***************************************************************************)
(* C19: when the provider's reply for a batch does not parse as JSON after *)
(* the code fences are stripped, the batch is recorded with status error,  *)
(* an error message and processed_count 0, and the provider is not called  *)
(* again for that batch.                                                   *)
(***************************************************************************)
NonJsonTexts == {<<"x">>, <<FenceJson, "x", Fence>>, <<"{}", "x">>, <<>>}

C19_NonJsonReplyIsError ==
    /\ [](\A b \in LlmBatches : lreply[b] \in NonJsonTexts =>
            /\ lresult[b].status = "error"
            /\ lresult[b].error # ""
            /\ lresult[b].processed_count = 0)
    /\ [][\A b \in LlmBatches : lreply[b] \in NonJsonTexts =>
            (attempt'[b] = attempt[b] /\ lpc'[b] # "calling")]_vars

\* a fenced reply that is not JSON came on a second attempt
C19_Witness ==
    \E b \in LlmBatches :
        /\ lpc[b] = "finished"
        /\ lreply[b] = <<FenceJson, "x", Fence>>
        /\ attempt[b] = 2
        /\ lresult[b].status = "error"

(***************************************************************************)
(* C20: in the compile step a success file that is not valid JSON, lacks a *)
(* required key, or whose response is not a JSON object contributes no     *)
(* rows and does not stop the compilation: the output holds every row the  *)
(* remaining valid success files would produce on their own, whatever      *)
(* order the files are read in.                                            *)
(***************************************************************************)
RequiredKeys == {"response", "input_addresses"}
IsValidFile(f) ==
    /\ f.status = "success"
    /\ "text" \notin DOMAIN f
    /\ RequiredKeys \subseteq DOMAIN f
    /\ f.response.kind = "dict"
Times(rows, r) == Cardinality({i \in 1..Len(rows) : rows[i] = r})
SameRows(a, b) ==
    /\ Len(a) = Len(b)
    /\ \A i \in 1..Len(a) : Times(a, a[i]) = Times(b, a[i])

C20_MalformedFilesSkipped ==
    (apPc = "returned" /\ "compile" \in apDone) =>
        \A order \in Orderings({f \in dirFiles : IsValidFile(f)}) :
            SameRows(records, CompileFiles(order))

\* compiled: a directory with a cut-short file, a file that lacks a required
\* key and a valid file, and the one row of the valid file is the output
C20_Witness ==
    /\ apPc = "returned"
    /\ \E f \in dirFiles : f.status = "success" /\ "text" \in DOMAIN f
    /\ \E f \in dirFiles : f.status = "success" /\ "text" \notin DOMAIN f
                              /\ ~(RequiredKeys \subseteq DOMAIN f)
    /\ \E f \in dirFiles : IsValidFile(f)
    /\ Len(records) = 1

(***************************************************************************)
(* C21: after any sequence of runs of normalise_addresses_using_llm on the *)
(* same output directory, the directory holds at most one result file per  *)
(* batch id (never both batch_k_success and batch_k_error), so the compile *)
(* step reads only success files of batches that succeeded in the latest   *)
(* run.                                                                    *)
(***************************************************************************)
C21_OneFilePerBatchId ==
    \A f, g \in dirFiles : f.batch_id = g.batch_id => f = g

(***************************************************************************)
(* C22: in geocode_batch with a checkpoint path, a checkpoint holding all  *)
(* results collected so far is written after every save_every-th completed *)
(* address and once more after the last one; each checkpoint holds the ids *)
(* of the one before it with unchanged values, and the final checkpoint    *)
(* equals the returned results map.                                        *)
(***************************************************************************)
BatchOver == geoPc \in {"returned", "raised"}
Extends(later, earlier) ==
    /\ DOMAIN earlier \subseteq DOMAIN later
    /\ \A a \in DOMAIN earlier : later[a] = earlier[a]

C22_CheckpointAfterTheLast ==
    /\ []((geoPathGiven /\ BatchOver) =>
             /\ checkpoints = processed \div SaveEvery + 1
             /\ checkpoint = results)
    /\ [][geoPathGiven =>
             /\ (processed' # processed /\ processed' % SaveEvery = 0) =>
                    (checkpoints' = checkpoints + 1 /\ checkpoint' = results')
             /\ (checkpoints > 0 /\ checkpoints' # checkpoints) =>
                    Extends(checkpoint', checkpoint)]_vars

(***************************************************************************)
(* C23: during geocode_batch, at every instant at most max_concurrent      *)
(* single-address geocodes, their retry waits included, are in progress,   *)
(* for any number of addresses and any completion order.                   *)
(***************************************************************************)
InProgress == {a \in AddrIds : gpc[a] \in {"call", "http", "sleep"}}

C23_AtMostMaxConcurrent ==
    Cardinality(InProgress) <= MaxConcurrent

\* max_concurrent geocodes are under way, one of them in a retry wait, and
\* another address is held back by the semaphore
C23_Witness ==
    /\ Cardinality(InProgress) = MaxConcurrent
    /\ \E a \in InProgress : gpc[a] = "sleep"
    /\ \E a \in AddrIds : gpc[a] = "sem_wait"

(***************************************************************************)
(* C24: pivot_rues_data returns exactly one row per registry entity (tax   *)
(* ID) for every input panel, including an entity with one row per year    *)
(* and an entity matched to more than one coordinate record of the         *)
(* combined registry and participant coordinate pool.                      *)
(***************************************************************************)
PivotOver == pvPc \in {"pivoted", "raised"}
RowsOfEntity(n) == {r \in rues_pivoted : r.nit = n}

C24_OneRowPerEntity ==
    PivotOver =>
        /\ pvPc = "pivoted"
        /\ \A n \in {r.nit : r \in Range(rues_joined)} : Cardinality(RowsOfEntity(n)) = 1

(***************************************************************************)
(* C25: when a registry entity has a city value in both observation years, *)
(* the single city kept by pivot_rues_data is the value of the most recent *)
(* year (2024); the value of the earlier year is used only when the most   *)
(* recent year has none.                                                   *)
(***************************************************************************)
\* the city of the first row of the entity for the year, NaStr without one
RECURSIVE CityOfYear(_, _, _)
CityOfYear(rows, n, year) ==
    IF rows = <<>> THEN NaStr
    ELSE IF Head(rows).nit = n /\ Head(rows).source_year = year THEN Head(rows).city
    ELSE CityOfYear(Tail(rows), n, year)

C25_MostRecentCityKept ==
    pvPc = "pivoted" =>
        \A r \in rues_pivoted :
            r.city = IF CityOfYear(rues_joined, r.nit, 2024) # NaStr
                       THEN CityOfYear(rues_joined, r.nit, 2024)
                       ELSE CityOfYear(rues_joined, r.nit, 2023)

(***************************************************************************)
(* C26: for every non-participant (centro null) with coordinates,          *)
(* assign_control_centros assigns a center only from the centers whose     *)
(* top-industry-code list contains the entity's industry code, and outside *)
(* the Manrique/Medellin co-location case the assigned center is the one   *)
(* of those with the smallest haversine distance; the centro values that   *)
(* participants have are left unchanged.                                   *)
(***************************************************************************)
\* the centers one of whose participants has the industry code of the row
Eligible(data, row) ==
    {c \in Centros : \E j \in 1..Len(data) :
        /\ data[j].sales2022s # NaNum
        /\ data[j].centro = c
        /\ data[j].ciiu_principal_2023 = row.ciiu_principal_2023}
Nearest(row, cs) == {c \in cs : \A o \in cs : Distance(row.latitude, c) <= Distance(row.latitude, o)}
CoLocated == {"Manrique", "Medellin"}
\* both co-located centers are eligible and one of them is a nearest one
CoLocationCase(data, row) ==
    /\ CoLocated \subseteq Eligible(data, row)
    /\ Nearest(row, Eligible(data, row)) \cap CoLocated # {}
AssignStep == lkPc = "mapped" /\ lkPc' = "centros"

CoLocationRows(data) ==
    {i \in 1..Len(data) :
        /\ data[i].centro = NaStr
        /\ data[i].latitude # NaNum
        /\ CoLocationCase(data, data[i])}
Successive(S, i, j) == i \in S /\ j \in S /\ i < j /\ ~\E k \in S : i < k /\ k < j
ByParity(index) == IF index % 2 = 0 THEN "Manrique" ELSE "Medellin"

\* the claim as it stands: parity decides, and successive rows alternate
C27_SuccessiveRowsAlternate ==
    [][AssignStep =>
         LET S == CoLocationRows(data_with_coords) IN
         /\ \A i \in S : data_with_coords'[i].centro = ByParity(data_with_coords[i].name)
         /\ \A i, j \in S : Successive(S, i, j) =>
                data_with_coords'[i].centro # data_with_coords'[j].centro]_vars

\* what holds: parity decides, so two such rows get different centers
\* exactly when the parities of their indexes differ
C27_ParityDecides ==
    [][AssignStep =>
         LET S == CoLocationRows(data_with_coords) IN
         /\ \A i \in S : data_with_coords'[i].centro = ByParity(data_with_coords[i].name)
         /\ \A i, j \in S :
                (data_with_coords'[i].centro # data_with_coords'[j].centro)
                    <=> (data_with_coords[i].name % 2 # data_with_coords[j].name % 2)]_vars

\* two successive rows of the case, with a participant between them, both
\* got Medellin, the farther of the two for the one at Manrique's place
C27_Witness ==
    /\ lkPc = "centros"
    /\ Len(data_with_coords) = 4
    /\ data_with_coords[1].sales2022s # NaNum /\ data_with_coords[1].centro = "Manrique"
    /\ data_with_coords[3].sales2022s # NaNum /\ data_with_coords[3].centro = "Medellin"
    /\ data_with_coords[2].sales2022s = NaNum /\ data_with_coords[2].latitude = 0
    /\ data_with_coords[4].sales2022s = NaNum /\ data_with_coords[4].latitude = 1
    /\ data_with_coords[2].centro = "Medellin"
    /\ data_with_coords[4].centro = "Medellin"

(***************************************************************************)
(* C28: with N batch tasks sharing one rate limiter, where acquire() and   *)
(* release() contend for the same lock and every provider call eventually  *)
(* returns or raises, no task waits forever: every task eventually         *)
(* acquires, produces exactly one result with status success or error, and *)
(* releases, and normalise_addresses_using_llm returns a summary with      *)
(* successful_batches + failed_batches = total_batches = N.                *)
(***************************************************************************)
C28_EveryTaskFinishes ==
    /\ <>(/\ tkPc = "returned"
          /\ \A b \in GatherTasks :
                /\ tpc[b] = "finished"
                /\ tAttempt[b] >= 1
                /\ Len(tResults[b]) = 1
                /\ tResults[b][1] \in {"success", "error"}
          /\ tkActive = 0
          /\ tkSummary.total_batches = NumGather
          /\ tkSummary.successful_batches + tkSummary.failed_batches = NumGather
          /\ tkSummary.successful_batches = CountOf("success")
          /\ tkSummary.failed_batches = CountOf("error"))
    /\ [](\A b \in GatherTasks : Len(tResults[b]) <= 1)

\* the run returned; one task succeeded at once and another failed after
\* five attempts, having waited for the lock
C28_Witness ==
    /\ tkPc = "returned"
    /\ \E a, b \in GatherTasks :
         /\ tResults[a] = <<"success">> /\ tAttempt[a] = 1
         /\ tResults[b] = <<"error">> /\ tAttempt[b] = 5

(***************************************************************************)
(* C29: every acquire() performed by geocode or process_address_batch is   *)
(* followed by exactly one release() on every path (success, non-OK        *)
(* status, provider error, missing HTTP session), so the shared            *)
(* active-operations counter is never negative and equals its starting     *)
(* value once all tasks have finished.                                     *)
(***************************************************************************)
AllGeocodesOver ==
    /\ geoPc # "start"
    /\ \A a \in AddrIds : gpc[a] \in {"none", "done", "failed"}

C29_AcquiresReleased ==
    /\ geoActive >= 0
    /\ AllGeocodesOver => geoActive = 0

(***************************************************************************)
(* C30: clean_zasca_nit is idempotent: applying it to its own output       *)
(* changes no participant's tax id, for every combination of tax id and    *)
(* alternate numeric id (ids with suffixes and check-digit variants        *)
(* included).                                                              *)
(***************************************************************************)
\* the four steps of clean_zasca_nit on one row, in the order of the code
CleanedNit(x, id) ==
    SuffixStripped(Remapped(CheckDigitDropped(FillFrom(x, id), id)))

C30_CleanIsIdempotent ==
    nitPc = "cleaned" => CleanedNit(nitClean, numberid_emp1) = nitClean

====
